---- MODULE Spec2Model ----
(***************************************************************************)
(* TitleChain multi-county search orchestration:                           *)
(*   backend/agents/search_agent.py     SearchAgent, DocumentCache         *)
(*   backend/agents/county_registry.py  CountyRegistry, factory            *)
(*   backend/agents/county_connector.py CountyConnectorBase, Mock          *)
(*                                                                         *)
(* Text values are sequences of one-character strings, so that lower(),    *)
(* replace() and join() are modelled by what they do.  None and "" are     *)
(* both the empty sequence: every use in the code is a truth test or       *)
(* `x or ""`, which treat the two alike.                                   *)
(* Time is an integer clock `now` (datetime.utcnow()).                     *)
(***************************************************************************)
EXTENDS Integers, Sequences, FiniteSets, TLC

VARIABLES
    registry,                 \* CountyRegistry._counties: key -> CountyConfig
    connector_classes,        \* CountyRegistry._connector_classes (names)
    credentials,              \* CountyConnectorFactory.credentials
    max_concurrent_counties,  \* SearchAgent.max_concurrent_counties
    cache,                    \* DocumentCache._cache: key -> <<cached_at, documents>>
    now,                      \* datetime.utcnow()
    phase,                    \* "idle" | "running" | "returned": position of SearchAgent.search
    request,                  \* the TitleSearchRequest being served
    tasks,                    \* the SearchTask list of the running call
    pc,                       \* position of each execute_with_limit coroutine
    conn,                     \* the connector each task obtained from the factory
    sem,                      \* asyncio.Semaphore._value of the running call
    result,                   \* the TitleSearchResult of the call
    _connectors,              \* SearchAgent._connectors: name -> connector
    calls,                    \* the calls of SearchAgent.search that have returned, oldest first
    probe,                    \* the last direct call of a factory, cache or connector method
    invocations,              \* per task: how often create_connector and connector.search were called
    users,                    \* app.py users: user_id -> record
    properties,               \* app.py properties: property_id -> record
    analyses,                 \* app.py analyses: analysis_id -> record
    keys,                     \* DIDManager.keys: did -> key pair
    did_documents,            \* DIDManager.did_documents: did -> DID document
    generated,                \* number of key pairs Ed25519PrivateKey.generate() has made
    issued_credentials,       \* CredentialIssuer.issued_credentials: id -> credential
    revoked,                  \* CredentialIssuer.revoked
    lists,                    \* the list objects of results: identity -> documents
    held                      \* the list object each returned result holds

vars == <<registry, connector_classes, credentials, max_concurrent_counties,
          cache, now, phase, request, tasks, pc, conn, sem, result,
          _connectors, calls, probe, invocations,
          users, properties, analyses, keys, did_documents, generated,
          issued_credentials, revoked, lists, held>>

\* the stores of the identity and credential services
api_vars == <<users, properties, analyses, keys, did_documents, generated,
              issued_credentials, revoked>>

\* the document lists seen as objects
share_vars == <<lists, held>>

(***************************************************************************)
(* Bounds of the model.                                                    *)
(***************************************************************************)
MaxTasks == 3        \* longest jurisdiction list of a request
MaxConcurrent == 2   \* largest max_concurrent_counties tried
MaxTicks == 1        \* the clock stops after this many ticks
TickSeconds == 3600  \* seconds by which one tick advances the clock
MaxCalls == 3        \* most successive calls of search on one agent
MaxCallTicks == 2    \* ticks of the clock between successive calls
CallTickSeconds == 1800  \* seconds by which one such tick advances the clock
MaxStrategies == 3   \* longest strategy list of a descriptor
MaxSubResults == 2   \* most documents one sub-search returns
MaxQueryTasks == 2   \* longest jurisdiction list of a request that may be blank
MaxAdds == 2         \* most descriptors added to a registry after its construction
MaxAnalyses == 1     \* most documents uploaded for analysis
MaxCredentials == 2  \* most credentials issued
MaxApiTicks == 2     \* ticks of the clock while the API is used
ApiTickSeconds == 15768000  \* seconds by which one such tick advances the clock (half a year)
MaxEntryCalls == 2   \* most successive requests served through the entry points
MaxShareCalls == 3   \* most successive calls whose lists are followed as objects

(***************************************************************************)
(* Text.                                                                   *)
(***************************************************************************)
None == <<>>

UpperChars == <<"A","B","C","D","E","F","G","H","I","J","K","L","M",
                "N","O","P","Q","R","S","T","U","V","W","X","Y","Z">>
LowerChars == <<"a","b","c","d","e","f","g","h","i","j","k","l","m",
                "n","o","p","q","r","s","t","u","v","w","x","y","z">>

\* str.lower() on one character
LowerChar(c) ==
    IF \E i \in 1..26 : UpperChars[i] = c
    THEN LowerChars[CHOOSE i \in 1..26 : UpperChars[i] = c]
    ELSE c

\* str.lower()
lower(s) == [i \in 1..Len(s) |-> LowerChar(s[i])]

\* str.upper()
UpperChar(c) ==
    IF \E i \in 1..26 : LowerChars[i] = c
    THEN UpperChars[CHOOSE i \in 1..26 : LowerChars[i] = c]
    ELSE c

upper(s) == [i \in 1..Len(s) |-> UpperChar(s[i])]

\* str.replace(" ", "_")
replace_space(s) == [i \in 1..Len(s) |-> IF s[i] = " " THEN "_" ELSE s[i]]

\* "|".join(parts)
RECURSIVE join(_, _)
join(sep, parts) ==
    IF Len(parts) = 0 THEN <<>>
    ELSE IF Len(parts) = 1 THEN parts[1]
    ELSE parts[1] \o sep \o join(sep, Tail(parts))

Montgomery == <<"M","o","n","t","g","o","m","e","r","y">>
LosAngeles == <<"L","o","s"," ","A","n","g","e","l","e","s">>
Cook == <<"C","o","o","k">>
Nowhere == <<"N","o","w","h","e","r","e">>
Alpha == <<"A","l","p","h","a">>
TestCounty == <<"T","e","s","t"," ","C","o","u","n","t","y">>
MD == <<"M","D">>
CA == <<"C","A">>
IL == <<"I","L">>
ZZ == <<"Z","Z">>
ST == <<"S","T">>
MockParcel == <<"1","2","-","3","4","5","-","6","7","8","9">>
MainSt == <<"1","2","3"," ","M","a","i","n"," ","S","t">>
AliceSmith == <<"A","l","i","c","e"," ","S","m","i","t","h">>
FirstNationalBank == <<"F","i","r","s","t"," ","N","a","t","i","o","n","a","l"," ","B","a","n","k">>

(***************************************************************************)
(* Documents and criteria (county_connector.py).                           *)
(***************************************************************************)
DEED == "deed"
MORTGAGE == "mortgage"
OTHER_TYPE == "other"

SecondsPerDay == 86400

\* datetime values are seconds relative to the construction of the agent;
\* an absent datetime is <<>>, a present one is <<t>>.
NoDate == <<>>

\* MockCountyConnector._generate_mock_data; the data is recorded before the
\* agent is constructed (2024-03-15 and 2024-01-10).
_generate_mock_data(county, state) ==
    << [document_id |-> "mock-001", county |-> county, state |-> state,
        book |-> "1234", page |-> "567", instrument_number |-> "2024-0001",
        recording_date |-> <<0 - 664 * SecondsPerDay>>,
        document_type |-> DEED, grantee |-> <<AliceSmith>>,
        parcel_number |-> MockParcel, property_address |-> MainSt],
       [document_id |-> "mock-002", county |-> county, state |-> state,
        book |-> "1234", page |-> "789", instrument_number |-> "2024-0002",
        recording_date |-> <<0 - 729 * SecondsPerDay>>,
        document_type |-> MORTGAGE, grantee |-> <<FirstNationalBank>>,
        parcel_number |-> MockParcel, property_address |-> MainSt] >>

\* `sub in s` on text
Contains(sub, s) ==
    \E k \in 0..(Len(s) - Len(sub)) :
        \A j \in 1..Len(sub) : s[k + j] = sub[j]

\* search_by_parcel that stops at the first matching document
mock_search_by_parcel_first_match(data, parcel_number) ==
    LET Match(doc) == doc.parcel_number = parcel_number
    IN SubSeq(SelectSeq(data, Match), 1, 1)

\* MockCountyConnector.search_by_parcel
mock_search_by_parcel(data, parcel_number) ==
    LET Match(doc) == doc.parcel_number = parcel_number
    IN SelectSeq(data, Match)

\* MockCountyConnector.search_by_address
mock_search_by_address(data, address) ==
    LET Match(doc) == Contains(lower(address), lower(doc.property_address))
    IN SelectSeq(data, Match)

\* MockCountyConnector.search_by_owner
mock_search_by_owner(data, owner_name) ==
    LET Match(doc) == \E g \in 1..Len(doc.grantee) :
                          Contains(lower(owner_name), lower(doc.grantee[g]))
    IN SelectSeq(data, Match)

\* seq[:m], Python slice semantics
Slice(seq, m) ==
    LET n == IF m >= 0 THEN (IF m < Len(seq) THEN m ELSE Len(seq))
             ELSE (IF Len(seq) + m > 0 THEN Len(seq) + m ELSE 0)
    IN SubSeq(seq, 1, n)

\* a de-duplication loop that compares whole documents, not their ids
RECURSIVE Dedup_by_document(_, _)
Dedup_by_document(seq, seen) ==
    IF seq = <<>> THEN <<>>
    ELSE IF Head(seq) \in seen THEN Dedup_by_document(Tail(seq), seen)
    ELSE <<Head(seq)>> \o Dedup_by_document(Tail(seq), seen \cup {Head(seq)})

\* the de-duplication loop of CountyConnectorBase.search
RECURSIVE Dedup(_, _)
Dedup(seq, seen) ==
    IF seq = <<>> THEN <<>>
    ELSE IF Head(seq).document_id \in seen THEN Dedup(Tail(seq), seen)
    ELSE <<Head(seq)>> \o Dedup(Tail(seq), seen \cup {Head(seq).document_id})

\* CountyConnectorBase.search with an end date that is not included
unified_search_exclusive_end(criteria, by_parcel, by_address, by_owner, by_instrument) ==
    LET r1 == IF criteria.parcel_number # None THEN by_parcel ELSE <<>>
        r2 == r1 \o (IF criteria.property_address # None THEN by_address ELSE <<>>)
        r3 == r2 \o (IF criteria.owner_name # None THEN by_owner ELSE <<>>)
        r4 == r3 \o (IF criteria.book # None \/ criteria.page # None
                        \/ criteria.instrument_number # None
                     THEN by_instrument ELSE <<>>)
        TypeOk(doc) == doc.document_type \in criteria.document_types
        r5 == IF criteria.document_types # {} THEN SelectSeq(r4, TypeOk) ELSE r4
        AfterStart(doc) == /\ doc.recording_date # NoDate
                           /\ doc.recording_date[1] >= criteria.start_date[1]
        r6 == IF criteria.start_date # NoDate THEN SelectSeq(r5, AfterStart) ELSE r5
        BeforeEnd(doc) == /\ doc.recording_date # NoDate
                          /\ doc.recording_date[1] < criteria.end_date[1]
        r7 == IF criteria.end_date # NoDate THEN SelectSeq(r6, BeforeEnd) ELSE r6
    IN Slice(Dedup(r7, {}), criteria.max_results)

\* CountyConnectorBase.search, given what the four sub-searches return
\* (by_instrument is <<>> for None, <<doc>> for a document).
unified_search(criteria, by_parcel, by_address, by_owner, by_instrument) ==
    LET r1 == IF criteria.parcel_number # None THEN by_parcel ELSE <<>>
        r2 == r1 \o (IF criteria.property_address # None THEN by_address ELSE <<>>)
        r3 == r2 \o (IF criteria.owner_name # None THEN by_owner ELSE <<>>)
        r4 == r3 \o (IF criteria.book # None \/ criteria.page # None
                        \/ criteria.instrument_number # None
                     THEN by_instrument ELSE <<>>)
        TypeOk(doc) == doc.document_type \in criteria.document_types
        r5 == IF criteria.document_types # {} THEN SelectSeq(r4, TypeOk) ELSE r4
        AfterStart(doc) == /\ doc.recording_date # NoDate
                           /\ doc.recording_date[1] >= criteria.start_date[1]
        r6 == IF criteria.start_date # NoDate THEN SelectSeq(r5, AfterStart) ELSE r5
        BeforeEnd(doc) == /\ doc.recording_date # NoDate
                          /\ doc.recording_date[1] <= criteria.end_date[1]
        r7 == IF criteria.end_date # NoDate THEN SelectSeq(r6, BeforeEnd) ELSE r6
    IN Slice(Dedup(r7, {}), criteria.max_results)

\* CountyConnectorBase.search on a MockCountyConnector
mock_search(county, state, criteria) ==
    LET data == _generate_mock_data(county, state)
    IN unified_search(criteria,
                      mock_search_by_parcel(data, criteria.parcel_number),
                      mock_search_by_address(data, criteria.property_address),
                      mock_search_by_owner(data, criteria.owner_name),
                      <<>>)

(***************************************************************************)
(* Registry and factory (county_registry.py).                              *)
(***************************************************************************)
PRIMARY == 1
FALLBACK == 4

\* the key of CountyRegistry.add_county / get_county
county_key_of(county, state) == replace_space(lower(state \o <<"_">> \o county))

\* list.sort(key=priority): stable insertion of x into a sorted list
RECURSIVE InsertByPriority(_, _)
InsertByPriority(x, sorted) ==
    IF sorted = <<>> THEN <<x>>
    ELSE IF x.priority < Head(sorted).priority THEN <<x>> \o sorted
    ELSE <<Head(sorted)>> \o InsertByPriority(x, Tail(sorted))

RECURSIVE sort_connectors(_)
sort_connectors(connectors) ==
    IF connectors = <<>> THEN <<>>
    ELSE InsertByPriority(connectors[Len(connectors)],
                          sort_connectors(SubSeq(connectors, 1, Len(connectors) - 1)))

\* CountyConfig(...) with __post_init__
CountyConfig(county, state, connectors, has_online_access) ==
    [county |-> county, state |-> state,
     connectors |-> sort_connectors(connectors),
     has_online_access |-> has_online_access]

\* CountyRegistry.add_county
add_county(counties, config) ==
    LET key == county_key_of(config.county, config.state)
    IN [k \in DOMAIN counties \cup {key} |->
            IF k = key THEN config ELSE counties[k]]

\* CountyRegistry._load_default_configs
EmptyMap == [k \in {} |-> {}]

load_default_configs ==
    add_county(
      add_county(
        add_county(EmptyMap,
          CountyConfig(Montgomery, MD,
            << [connector_type |-> "montgomery_md", priority |-> PRIMARY],
               [connector_type |-> "mock", priority |-> FALLBACK] >>, TRUE)),
        CountyConfig(LosAngeles, CA,
            << [connector_type |-> "mock", priority |-> FALLBACK] >>, TRUE)),
      CountyConfig(Cook, IL,
            << [connector_type |-> "mock", priority |-> FALLBACK] >>, TRUE))

\* the registry the agent is constructed with: the default configurations and
\* one county added with add_county whose only strategy names a connector
\* type that no class is registered for
registry_with_alpha ==
    add_county(load_default_configs,
      CountyConfig(Alpha, ST,
            << [connector_type |-> "alpha_api", priority |-> PRIMARY] >>, FALSE))

\* CountyRegistry._register_builtin_connectors: name -> class
builtin_connector_classes ==
    [n \in {"mock", "montgomery_md"} |->
        IF n = "mock" THEN "MockCountyConnector" ELSE "MontgomeryCountyMDConnector"]

\* a connector object as constructed (CountyConnectorBase.__init__).
\* raised, returned and searched record what the connector has done so far:
\* whether one of its operations raised, the documents its search returned,
\* and whether its search was called.
Connector(kind, county, state) ==
    [kind |-> kind, county |-> county, state |-> state,
     authenticated |-> FALSE, closed |-> FALSE,
     raised |-> FALSE, returned |-> <<>>, searched |-> FALSE]

NoConn == [kind |-> "none"]

\* dict.get(key) on a credential bundle (a function from key names to text)
bundle_get(bundle, key) == IF key \in DOMAIN bundle THEN bundle[key] ELSE None

\* the credential bundle _instantiate_connector resolves for a connector type:
\* the type's own bundle unless it is absent or empty, else the 'global' one,
\* else {}
resolve_creds(creds, connector_type) ==
    LET own == IF connector_type \in DOMAIN creds THEN creds[connector_type] ELSE EmptyMap
    IN IF DOMAIN own # {} THEN own
       ELSE IF "global" \in DOMAIN creds THEN creds["global"]
       ELSE EmptyMap

\* connector_class(**creds) of the generic branch: the constructor raises
\* TypeError on a keyword it does not take or a required one it is not given
construct_generic(class, c) ==
    IF class = "MockCountyConnector"
    THEN IF DOMAIN c \subseteq {"county", "state"}
         THEN [ok |-> TRUE,
               connector |-> Connector("mock",
                             IF "county" \in DOMAIN c THEN c["county"] ELSE TestCounty,
                             IF "state" \in DOMAIN c THEN c["state"] ELSE MD)]
         ELSE [ok |-> FALSE, error |-> <<"unexpected keyword argument">>]
    ELSE IF DOMAIN c = {"email", "password"}
         THEN [ok |-> TRUE, connector |-> Connector("montgomery_md", Montgomery, MD)]
         ELSE [ok |-> FALSE, error |-> <<"wrong keyword arguments">>]

\* _instantiate_connector that builds the MDLandRec connector whatever the
\* credentials
instantiate_connector_without_credentials(connector_config, county_config, classes, creds) ==
    LET connector_type == connector_config.connector_type
        c == resolve_creds(creds, connector_type)
    IN IF connector_type \notin DOMAIN classes
       THEN [ok |-> FALSE, error |-> <<"Unknown connector type">>]
       ELSE IF connector_type = "mock"
       THEN [ok |-> TRUE,
             connector |-> Connector("mock", county_config.county, county_config.state)]
       ELSE IF connector_type = "montgomery_md"
       THEN [ok |-> TRUE, connector |-> Connector("montgomery_md", Montgomery, MD)]
       ELSE construct_generic(classes[connector_type], c)

\* CountyConnectorFactory._instantiate_connector: ok = FALSE when it raises
instantiate_connector(connector_config, county_config, classes, creds) ==
    LET connector_type == connector_config.connector_type
        c == resolve_creds(creds, connector_type)
    IN IF connector_type \notin DOMAIN classes
       THEN [ok |-> FALSE, error |-> <<"Unknown connector type">>]
       ELSE IF connector_type = "mock"
       THEN [ok |-> TRUE,
             connector |-> Connector("mock", county_config.county, county_config.state)]
       ELSE IF connector_type = "montgomery_md"
       THEN IF bundle_get(c, "email") = None \/ bundle_get(c, "password") = None
            THEN [ok |-> FALSE,
                  error |-> <<"Montgomery County MD connector requires email and password">>]
            ELSE [ok |-> TRUE, connector |-> Connector("montgomery_md", Montgomery, MD)]
       ELSE construct_generic(classes[connector_type], c)

\* the loop of create_connector that raises when no strategy could be built
RECURSIVE try_connectors_raising(_, _, _, _, _, _)
try_connectors_raising(connectors, county_config, classes, creds, county, state) ==
    IF connectors = <<>>
    THEN [ok |-> FALSE, error |-> <<"All connectors failed", county, state>>]
    ELSE LET r == instantiate_connector(Head(connectors), county_config, classes, creds)
         IN IF r.ok THEN r
            ELSE try_connectors_raising(Tail(connectors), county_config, classes, creds,
                                        county, state)

\* the loop of create_connector over the eligible strategies, then the
\* fall-back to MockCountyConnector(county, state)
RECURSIVE try_connectors(_, _, _, _, _, _)
try_connectors(connectors, county_config, classes, creds, county, state) ==
    IF connectors = <<>>
    THEN [ok |-> TRUE, connector |-> Connector("mock", county, state)]
    ELSE LET r == instantiate_connector(Head(connectors), county_config, classes, creds)
         IN IF r.ok THEN r
            ELSE try_connectors(Tail(connectors), county_config, classes, creds,
                                county, state)

\* create_connector without the priority filter
eligible_connectors_unfiltered(config, priority) == config.connectors

\* the strategies create_connector keeps: all of them, or those with
\* priority <= the given one; priority 0 stands for None
eligible_connectors(config, priority) ==
    LET Eligible(c) == c.priority <= priority
    IN IF priority # 0 THEN SelectSeq(config.connectors, Eligible)
       ELSE config.connectors

\* create_connector that answers an empty strategy list with the stub
create_connector_stub_when_none(counties, classes, creds, county, state, priority) ==
    LET key == county_key_of(county, state)
    IN IF key \notin DOMAIN counties
       THEN [ok |-> FALSE, error |-> <<"County not found", county, state>>]
       ELSE try_connectors(eligible_connectors(counties[key], priority), counties[key],
                           classes, creds, county, state)

\* CountyConnectorFactory.create_connector
create_connector(counties, classes, creds, county, state, priority) ==
    LET key == county_key_of(county, state)
    IN IF key \notin DOMAIN counties
       THEN [ok |-> FALSE, error |-> <<"County not found", county, state>>]
       ELSE
         LET config == counties[key]
             connectors == eligible_connectors(config, priority)
         IN IF connectors = <<>>
            THEN [ok |-> FALSE, error |-> <<"No suitable connector found", county, state>>]
            ELSE try_connectors(connectors, config, classes, creds, county, state)

\* the strategies the loop of create_connector passes to
\* _instantiate_connector, in the order it does
RECURSIVE attempted(_, _, _, _)
attempted(connectors, county_config, classes, creds) ==
    IF connectors = <<>> THEN <<>>
    ELSE IF instantiate_connector(Head(connectors), county_config, classes, creds).ok
    THEN <<Head(connectors)>>
    ELSE <<Head(connectors)>> \o attempted(Tail(connectors), county_config, classes, creds)

\* the position in `connectors` of the strategy whose connector the loop
\* returns; 0 when the loop ends without one
built_by(connectors, county_config, classes, creds) ==
    LET tried == attempted(connectors, county_config, classes, creds)
    IN IF tried # <<>> /\ instantiate_connector(tried[Len(tried)], county_config,
                                                classes, creds).ok
       THEN Len(tried) ELSE 0

(***************************************************************************)
(* DocumentCache (search_agent.py).                                        *)
(***************************************************************************)
ttl_seconds == 3600

\* hashlib.md5(...).hexdigest(), taken to be collision free
md5(text) == <<"md5", text>>

\* DocumentCache._make_key
make_key(county, state, criteria) ==
    md5(join(<<"|">>, <<county, state, criteria.parcel_number,
                        criteria.property_address, criteria.owner_name>>))

\* cache_fresh that still accepts an entry aged exactly ttl_seconds
cache_fresh_inclusive(c, cache_key, t) ==
    /\ cache_key \in DOMAIN c
    /\ t - c[cache_key].cached_at <= ttl_seconds

\* the entry of DocumentCache.get is present and not expired at time t
cache_fresh(c, cache_key, t) ==
    /\ cache_key \in DOMAIN c
    /\ t - c[cache_key].cached_at < ttl_seconds

\* the value DocumentCache.get returns (None is <<>>)
cache_get(c, cache_key, t) ==
    IF cache_fresh(c, cache_key, t) THEN c[cache_key].documents ELSE None

\* the cache after DocumentCache.get: an expired entry is deleted
cache_after_get(c, cache_key, t) ==
    IF cache_key \in DOMAIN c /\ ~cache_fresh(c, cache_key, t)
    THEN [k \in DOMAIN c \ {cache_key} |-> c[k]]
    ELSE c

\* DocumentCache.set
cache_set(c, cache_key, documents, t) ==
    [k \in DOMAIN c \cup {cache_key} |->
        IF k = cache_key THEN [cached_at |-> t, documents |-> documents] ELSE c[k]]

(***************************************************************************)
(* DIDManager (did_manager.py), CredentialIssuer (credential_issuer.py)    *)
(* and the stores of app.py.  A key pair is the number of the call of      *)
(* Ed25519PrivateKey.generate() that made it; a uuid4 is the number of the *)
(* call that drew it.                                                      *)
(***************************************************************************)
did_domain == <<"l","o","c","a","l","h","o","s","t",":","8","0","0","0">>
UsersType == <<"u","s","e","r","s">>
PropertyType == <<"p","r","o","p","e","r","t","y">>
OrgType == <<"o","r","g">>
Platform == <<"p","l","a","t","f","o","r","m">>

\* f"did:web:{self.domain}:{did_type}:{user_id}"
did_of(did_type, user_id) ==
    <<"d","i","d",":","w","e","b",":">> \o did_domain \o <<":">> \o did_type
    \o <<":">> \o user_id

\* the platform issuer DID app.py creates at import
ISSUER_DID == did_of(OrgType, Platform)

\* DIDManager.keys after create_did stored the n-th key pair under did
create_did_keys(ks, did, n) ==
    [d \in DOMAIN ks \cup {did} |->
        IF d = did THEN [private |-> n, public |-> n] ELSE ks[d]]

\* DIDManager.did_documents after create_did
create_did_documents(docs, did, n) ==
    [d \in DOMAIN docs \cup {did} |->
        IF d = did THEN [id |-> did, publicKeyMultibase |-> n] ELSE docs[d]]

\* DIDManager.sign_data: an Ed25519 signature of data by the private key
sign_data(ks, did, data) == <<"signature", ks[did].private, data>>

\* DIDManager.verify_signature; FALSE also when it raises for an unknown
\* DID, which verify_credential catches
verify_signature(ks, did, data, signature) ==
    /\ did \in DOMAIN ks
    /\ signature = <<"signature", ks[did].public, data>>

\* hashlib.sha256(...).digest(), taken to be collision free
sha256(x) == <<"sha256", x>>

\* the canonical form that is signed, computed without removing the proof
canonical_with_proof(credential) == credential

\* {k: v for k, v in credential.items() if k != "proof"}
canonical(credential) ==
    [k \in DOMAIN credential \ {"proof"} |-> credential[k]]

\* datetime.isoformat() + "Z", and datetime.fromisoformat of it
isoformat(t) == <<"iso", t, "Z">>
fromisoformat(text) == text[2]

\* f"{did}#key-1", and .split("#")[0] of it
KeyOne == <<"#","k","e","y","-","1">>

RECURSIVE before_hash(_)
before_hash(text) ==
    IF text = <<>> \/ Head(text) = "#" THEN <<>>
    ELSE <<Head(text)>> \o before_hash(Tail(text))

expiration_days == 365

\* str(uuid.uuid4()), f"urn:uuid:{...}" and credential_id.split(':')[-1]
uuid4(n) == <<"uuid", n>>
urn(uuid) == <<"urn:uuid", uuid>>
last_part(credential_id) == credential_id[2]

\* CredentialIssuer._create_proof
create_proof(ks, credential, t) ==
    [created |-> isoformat(t),
     verificationMethod |-> ISSUER_DID \o KeyOne,
     proofValue |-> sign_data(ks, ISSUER_DID, sha256(canonical(credential)))]

\* CredentialIssuer._verify_proof
verify_proof(ks, credential, proof) ==
    verify_signature(ks, before_hash(proof.verificationMethod),
                     sha256(canonical(credential)), proof.proofValue)

\* CredentialIssuer.issue_property_credential: the signed credential; the
\* property data and title analysis it carries are those of analysis_id
issue_property_credential(ks, credential_id, subject_did, analysis_id, t) ==
    LET credential ==
          [id |-> credential_id,
           issuer |-> ISSUER_DID,
           issuanceDate |-> isoformat(t),
           expirationDate |-> isoformat(t + expiration_days * SecondsPerDay),
           credentialSubject |-> [id |-> subject_did, analysis |-> analysis_id]]
    IN [k \in DOMAIN credential \cup {"proof"} |->
           IF k = "proof" THEN create_proof(ks, credential, t) ELSE credential[k]]

\* CredentialIssuer.verify_credential at time t
verify_credential(credential, rev, ks, t) ==
    LET checks ==
          [signature |-> verify_proof(ks, credential, credential.proof),
           not_expired |-> t < fromisoformat(credential.expirationDate),
           not_revoked |-> credential.id \notin rev,
           issuer_trusted |-> credential.issuer = ISSUER_DID]
    IN [valid |-> /\ checks.signature /\ checks.not_expired
                  /\ checks.not_revoked /\ checks.issuer_trusted,
        checks |-> checks]

\* a revocation that withdraws an earlier one
revoke_credential_toggling(rev, credential_id) ==
    IF credential_id \in rev THEN rev \ {credential_id} ELSE rev \cup {credential_id}

\* CredentialIssuer.revoke_credential
revoke_credential(rev, credential_id) == rev \cup {credential_id}

\* a duplicate check that never finds the user
user_exists_never(us, user_id) == FALSE

\* `request.user_id in users`
user_exists(us, user_id) == user_id \in DOMAIN us

\* app.py after import: the issuer DID has the first key pair, the stores
\* are empty
InitApi ==
    /\ users = EmptyMap
    /\ properties = EmptyMap
    /\ analyses = EmptyMap
    /\ keys = create_did_keys(EmptyMap, ISSUER_DID, 1)
    /\ did_documents = create_did_documents(EmptyMap, ISSUER_DID, 1)
    /\ generated = 1
    /\ issued_credentials = EmptyMap
    /\ revoked = {}

(***************************************************************************)
(* SearchAgent (search_agent.py).                                          *)
(***************************************************************************)
PENDING == "pending"
IN_PROGRESS == "in_progress"
COMPLETED == "completed"
FAILED == "failed"
PARTIAL == "partial"

years_back == 60
max_documents == 1000
timeout_seconds == 300

Jurisdictions == {<<Montgomery, MD>>, <<Cook, IL>>, <<Alpha, ST>>, <<Nowhere, ZZ>>}

\* the jurisdiction lists of the requests tried
CountyLists == UNION {[1..n -> Jurisdictions] : n \in 0..MaxTasks}

\* the parcel numbers of the requests tried
Parcels == {MockParcel}

\* TitleSearchRequest(parcel_number=..., counties=...), the rest defaulted
TitleSearchRequest(parcel_number, counties) ==
    [parcel_number |-> parcel_number, property_address |-> None,
     current_owner |-> None, counties |-> counties,
     years_back |-> years_back, document_types |-> {},
     max_documents |-> max_documents, timeout_seconds |-> timeout_seconds]

Requests == {TitleSearchRequest(p, cs) : p \in Parcels, cs \in CountyLists}

NoRequest == [counties |-> <<>>]

UserBundle == [email |-> <<"u">>, password |-> <<"p">>]

\* the credentials the agents tried are constructed with
CredentialChoices ==
    { EmptyMap, [n \in {"montgomery_md"} |-> UserBundle] }

\* what the MDLandRec site can answer to a sub-search
MdDoc ==
    [document_id |-> "md-001", county |-> Montgomery, state |-> MD,
     book |-> "77", page |-> "1", instrument_number |-> "",
     recording_date |-> <<0 - 100 * SecondsPerDay>>,
     document_type |-> DEED, grantee |-> <<AliceSmith>>,
     parcel_number |-> MockParcel, property_address |-> None]

SiteAnswers == { <<>>, <<MdDoc>> }

\* TitleSearchResult(request_id, status=IN_PROGRESS, started_at=utcnow())
TitleSearchResult(t) ==
    [status |-> IN_PROGRESS, started_at |-> <<t>>, completed_at |-> NoDate,
     documents_by_county |-> EmptyMap, all_documents |-> <<>>,
     counties_searched |-> 0, counties_succeeded |-> 0, counties_failed |-> 0,
     total_documents |-> 0, errors |-> <<>>]

NoResult == [status |-> "none"]

\* SearchAgent._create_search_task
create_search_task(county, state, req, t) ==
    [county |-> county, state |-> state,
     criteria |-> [parcel_number |-> req.parcel_number,
                   property_address |-> req.property_address,
                   owner_name |-> req.current_owner,
                   book |-> None, page |-> None, instrument_number |-> None,
                   start_date |-> <<t - 365 * req.years_back * SecondsPerDay>>,
                   end_date |-> <<t>>,
                   document_types |-> req.document_types,
                   max_results |-> req.max_documents],
     status |-> PENDING, results |-> <<>>, error |-> None,
     started_at |-> NoDate, completed_at |-> NoDate]

\* county_label keyed by the state alone
county_label_state_only(task) == task.state

\* f"{task.county}, {task.state}"
county_label(task) == task.county \o <<",", " ">> \o task.state

\* aggregate_task with counties_searched counted on the success branch only
aggregate_task_counting_successes(res, task) ==
    LET label == county_label(task)
    IN IF task.status = COMPLETED
       THEN [res EXCEPT
               !.counties_searched = @ + 1,
               !.counties_succeeded = @ + 1,
               !.documents_by_county =
                   [k \in DOMAIN @ \cup {label} |->
                       IF k = label THEN task.results ELSE @[k]],
               !.all_documents = @ \o task.results]
       ELSE [res EXCEPT
               !.counties_failed = @ + 1,
               !.errors = Append(@, [county |-> label,
                                     error |-> IF task.error # None
                                               THEN task.error
                                               ELSE <<"Unknown error">>])]

\* aggregate_task with the error recorded under the bare county name
aggregate_task_error_without_state(res, task) ==
    LET label == county_label(task)
        counted == [res EXCEPT !.counties_searched = @ + 1]
    IN IF task.status = COMPLETED
       THEN [counted EXCEPT
               !.counties_succeeded = @ + 1,
               !.documents_by_county =
                   [k \in DOMAIN @ \cup {label} |->
                       IF k = label THEN task.results ELSE @[k]],
               !.all_documents = @ \o task.results]
       ELSE [counted EXCEPT
               !.counties_failed = @ + 1,
               !.errors = Append(@, [county |-> task.county,
                                     error |-> IF task.error # None
                                               THEN task.error
                                               ELSE <<"Unknown error">>])]

\* aggregate_task that leaves out a document whose document_id the combined
\* list already holds
aggregate_task_deduplicating(res, task) ==
    LET label == county_label(task)
        counted == [res EXCEPT !.counties_searched = @ + 1]
        New(doc) == \A i \in 1..Len(res.all_documents) :
                        res.all_documents[i].document_id # doc.document_id
    IN IF task.status = COMPLETED
       THEN [counted EXCEPT
               !.counties_succeeded = @ + 1,
               !.documents_by_county =
                   [k \in DOMAIN @ \cup {label} |->
                       IF k = label THEN task.results ELSE @[k]],
               !.all_documents = @ \o SelectSeq(task.results, New)]
       ELSE [counted EXCEPT
               !.counties_failed = @ + 1,
               !.errors = Append(@, [county |-> label,
                                     error |-> IF task.error # None
                                               THEN task.error
                                               ELSE <<"Unknown error">>])]

\* one iteration of the aggregation loop of SearchAgent.search
aggregate_task(res, task) ==
    LET label == county_label(task)
        counted == [res EXCEPT !.counties_searched = @ + 1]
    IN IF task.status = COMPLETED
       THEN [counted EXCEPT
               !.counties_succeeded = @ + 1,
               !.documents_by_county =
                   [k \in DOMAIN @ \cup {label} |->
                       IF k = label THEN task.results ELSE @[k]],
               !.all_documents = @ \o task.results]
       ELSE [counted EXCEPT
               !.counties_failed = @ + 1,
               !.errors = Append(@, [county |-> label,
                                     error |-> IF task.error # None
                                               THEN task.error
                                               ELSE <<"Unknown error">>])]

\* the aggregation loop of SearchAgent.search over tasks[i..]
RECURSIVE aggregate(_, _, _)
aggregate(res, ts, i) ==
    IF i > Len(ts) THEN res
    ELSE aggregate(aggregate_task(res, ts[i]), ts, i + 1)

\* overall_status that reports any success as COMPLETED
overall_status_any_success(res) ==
    IF res.counties_succeeded > 0 THEN COMPLETED ELSE FAILED

\* "Determine overall status" of SearchAgent.search
overall_status(res) ==
    IF res.counties_succeeded = res.counties_searched THEN COMPLETED
    ELSE IF res.counties_succeeded > 0 THEN PARTIAL
    ELSE FAILED

\* SearchAgent.search from "Aggregate results" to the return
finish_result(res, ts, t) ==
    LET agg == aggregate(res, ts, 1)
        counted == [agg EXCEPT !.total_documents = Len(agg.all_documents),
                               !.completed_at = <<t>>]
    IN [counted EXCEPT !.status = overall_status(counted)]

\* gather returning at the first finished coroutine
gather_first_done(pcs) == \E i \in DOMAIN pcs : pcs[i] = "done"

\* asyncio.gather has every coroutine's result
gather_done(pcs) == \A i \in DOMAIN pcs : pcs[i] = "done"

\* a semaphore that admits one coroutine too many
can_acquire_off_by_one(value) == value >= 0

\* asyncio.Semaphore.acquire does not block
can_acquire(value) == value > 0

TaskIds == DOMAIN tasks

\* no method has been called directly
NoProbe == [op |-> "none"]

\* a task for which neither factory.create_connector nor connector.search
\* has been called
NoInvocations == [create_connector |-> 0, search |-> 0]

Init ==
    /\ registry = registry_with_alpha
    /\ connector_classes = builtin_connector_classes
    /\ credentials \in CredentialChoices
    /\ max_concurrent_counties \in 0..MaxConcurrent
    /\ cache = EmptyMap
    /\ now = 0
    /\ phase = "idle"
    /\ request = NoRequest
    /\ tasks = <<>>
    /\ pc = <<>>
    /\ conn = <<>>
    /\ sem = 0
    /\ result = NoResult
    /\ _connectors = EmptyMap
    /\ calls = <<>>
    /\ probe = NoProbe
    /\ invocations = <<>>
    /\ InitApi
    /\ lists = <<>>
    /\ held = <<>>

agent_unchanged == UNCHANGED <<registry, connector_classes, credentials,
                               max_concurrent_counties, _connectors, calls, probe,
                               api_vars, share_vars>>

\* Search without the "No counties specified" early return
Search_without_validation(req) ==
    /\ phase = "idle"
    /\ request' = req
    /\ result' = TitleSearchResult(now)
    /\ tasks' = [i \in 1..Len(req.counties) |->
                    create_search_task(req.counties[i][1], req.counties[i][2], req, now)]
    /\ pc' = [i \in 1..Len(req.counties) |-> "pending"]
    /\ conn' = [i \in 1..Len(req.counties) |-> NoConn]
    /\ sem' = max_concurrent_counties
    /\ phase' = "running"
    /\ invocations' = [i \in 1..Len(req.counties) |-> NoInvocations]
    /\ UNCHANGED <<cache, now>>
    /\ agent_unchanged

\* SearchAgent.search up to the creation of the coroutines by gather
Search(req) ==
    /\ phase = "idle"
    /\ request' = req
    /\ IF req.counties = <<>>
       THEN /\ result' = [TitleSearchResult(now) EXCEPT
                            !.status = FAILED,
                            !.errors = <<[error |-> <<"No counties specified for search">>]>>]
            /\ phase' = "returned"
            /\ UNCHANGED <<tasks, pc, conn, sem, invocations>>
       ELSE /\ result' = TitleSearchResult(now)
            /\ tasks' = [i \in 1..Len(req.counties) |->
                            create_search_task(req.counties[i][1], req.counties[i][2],
                                               req, now)]
            /\ pc' = [i \in 1..Len(req.counties) |-> "pending"]
            /\ conn' = [i \in 1..Len(req.counties) |-> NoConn]
            /\ sem' = max_concurrent_counties
            /\ phase' = "running"
            /\ invocations' = [i \in 1..Len(req.counties) |-> NoInvocations]
    /\ UNCHANGED <<cache, now>>
    /\ agent_unchanged

\* execute_with_limit enters the semaphore; _execute_single_search starts
Start(i) ==
    /\ phase = "running"
    /\ pc[i] = "pending"
    /\ can_acquire(sem)
    /\ sem' = sem - 1
    /\ tasks' = [tasks EXCEPT ![i].status = IN_PROGRESS, ![i].started_at = <<now>>]
    /\ pc' = [pc EXCEPT ![i] = "lookup"]
    /\ UNCHANGED <<cache, now, phase, request, conn, result, invocations>>
    /\ agent_unchanged

\* where the except clause of _execute_single_search leaves the coroutine
\* when it starts the task over
after_except_retrying == "lookup"

\* where the except clause of _execute_single_search leaves the coroutine:
\* `return task`
after_except == "done"

\* a coroutine that calls connector.search as soon as it has its connector
after_create_connector_searching == "search"

\* where the coroutine goes once factory.create_connector has returned:
\* `if not connector._authenticated: await connector.authenticate()`
after_create_connector == "authenticate"

\* the except clause of _execute_single_search, then the semaphore is left
task_failed(task, error, t) ==
    [task EXCEPT !.status = FAILED, !.error = error, !.completed_at = <<t>>]

\* the task's update on success
task_completed(task, documents, t) ==
    [task EXCEPT !.results = documents, !.status = COMPLETED, !.completed_at = <<t>>]

\* cache check, then (on a miss) factory.create_connector
Lookup(i) ==
    /\ phase = "running"
    /\ pc[i] = "lookup"
    /\ LET task == tasks[i]
           cache_key == make_key(task.county, task.state, task.criteria)
           cached_results == cache_get(cache, cache_key, now)
           made == create_connector(registry, connector_classes, credentials,
                                    task.county, task.state, 0)
       IN /\ cache' = cache_after_get(cache, cache_key, now)
          /\ IF cached_results # <<>>
             THEN /\ tasks' = [tasks EXCEPT ![i] = task_completed(task, cached_results, now)]
                  /\ pc' = [pc EXCEPT ![i] = "done"]
                  /\ sem' = sem + 1
                  /\ UNCHANGED <<conn, invocations>>
             ELSE IF ~made.ok
             THEN /\ tasks' = [tasks EXCEPT ![i] = task_failed(task, made.error, now)]
                  /\ pc' = [pc EXCEPT ![i] = after_except]
                  /\ sem' = sem + 1
                  /\ invocations' = [invocations EXCEPT ![i].create_connector = @ + 1]
                  /\ UNCHANGED conn
             ELSE /\ conn' = [conn EXCEPT ![i] = made.connector]
                  /\ pc' = [pc EXCEPT ![i] = after_create_connector]
                  /\ invocations' = [invocations EXCEPT ![i].create_connector = @ + 1]
                  /\ UNCHANGED <<tasks, sem>>
    /\ UNCHANGED <<now, phase, request, result>>
    /\ agent_unchanged

\* what connector.authenticate() can do: "true", "false" or "raise"
authenticate_outcomes(connector) ==
    IF connector.kind = "mock" THEN {"true"} ELSE {"true", "false", "raise"}

\* await connector.authenticate() comes back; connector.search is called
Authenticate(i) ==
    /\ phase = "running"
    /\ pc[i] = "authenticate"
    /\ \E outcome \in authenticate_outcomes(conn[i]) :
         IF outcome = "raise"
         THEN /\ tasks' = [tasks EXCEPT ![i] = task_failed(tasks[i], <<"authenticate failed">>, now)]
              /\ pc' = [pc EXCEPT ![i] = after_except]
              /\ sem' = sem + 1
              /\ conn' = [conn EXCEPT ![i].raised = TRUE]
              /\ UNCHANGED invocations
         ELSE /\ conn' = [conn EXCEPT ![i].authenticated = (outcome = "true"),
                                      ![i].searched = TRUE]
              /\ pc' = [pc EXCEPT ![i] = "search"]
              /\ invocations' = [invocations EXCEPT ![i].search = @ + 1]
              /\ UNCHANGED <<tasks, sem>>
    /\ UNCHANGED <<cache, now, phase, request, result>>
    /\ agent_unchanged

\* connector.search(criteria) returns documents, leaving the connector
\* authenticated or not, or raises
Returned(documents, authenticated) ==
    [raised |-> FALSE, documents |-> documents, authenticated |-> authenticated]
Raised == [raised |-> TRUE]

\* what connector.search(criteria) can do.  The stub answers from its mock
\* data (the agent never sets book, page or instrument_number, so
\* search_by_instrument is not called).  The MDLandRec sub-searches call
\* authenticate again when the connector is not authenticated: that call can
\* succeed, return False or raise; a failed request of theirs is answered with [].
search_outcomes(connector, criteria) ==
    IF connector.kind = "mock"
    THEN { Returned(mock_search(connector.county, connector.state, criteria),
                    connector.authenticated) }
    ELSE LET asks == \/ criteria.parcel_number # None
                     \/ criteria.property_address # None
                     \/ criteria.owner_name # None
             reauth == ~connector.authenticated /\ asks
         IN { Returned(unified_search(criteria, by_parcel, <<>>, by_owner, <<>>), a) :
                 by_parcel \in SiteAnswers, by_owner \in SiteAnswers,
                 a \in (IF reauth THEN BOOLEAN ELSE {connector.authenticated}) }
            \cup (IF reauth THEN {Raised} ELSE {})

\* await connector.search(criteria) comes back; cache.set; the task update
SearchReturn(i) ==
    /\ phase = "running"
    /\ pc[i] = "search"
    /\ \E outcome \in search_outcomes(conn[i], tasks[i].criteria) :
         IF outcome.raised
         THEN /\ tasks' = [tasks EXCEPT ![i] = task_failed(tasks[i], <<"search failed">>, now)]
              /\ pc' = [pc EXCEPT ![i] = after_except]
              /\ sem' = sem + 1
              /\ conn' = [conn EXCEPT ![i].raised = TRUE]
              /\ UNCHANGED cache
         ELSE /\ cache' = cache_set(cache,
                                    make_key(tasks[i].county, tasks[i].state,
                                             tasks[i].criteria),
                                    outcome.documents, now)
              /\ tasks' = [tasks EXCEPT ![i] = task_completed(tasks[i], outcome.documents, now)]
              /\ pc' = [pc EXCEPT ![i] = "close"]
              /\ conn' = [conn EXCEPT ![i].returned = outcome.documents,
                                      ![i].authenticated = outcome.authenticated]
              /\ UNCHANGED sem
    /\ UNCHANGED <<now, phase, request, result, invocations>>
    /\ agent_unchanged

\* what connector.close() can do: "ok" or "raise"
close_outcomes(connector) ==
    IF connector.kind = "mock" THEN {"ok"} ELSE {"ok", "raise"}

\* the task after `await connector.close()`
after_close(task, outcome, t) ==
    IF outcome = "raise" THEN task_failed(task, <<"close failed">>, t) ELSE task

\* await connector.close() comes back; the semaphore is left
Close(i) ==
    /\ phase = "running"
    /\ pc[i] = "close"
    /\ \E outcome \in close_outcomes(conn[i]) :
         /\ tasks' = [tasks EXCEPT ![i] = after_close(tasks[i], outcome, now)]
         /\ conn' = [conn EXCEPT ![i].closed = (outcome = "ok"),
                                 ![i].authenticated = IF outcome = "ok" THEN FALSE ELSE @,
                                 ![i].raised = (outcome = "raise")]
    /\ pc' = [pc EXCEPT ![i] = "done"]
    /\ sem' = sem + 1
    /\ UNCHANGED <<cache, now, phase, request, result, invocations>>
    /\ agent_unchanged

\* gather returns; SearchAgent.search aggregates and returns
Return ==
    /\ phase = "running"
    /\ gather_done(pc)
    /\ result' = finish_result(result, tasks, now)
    /\ phase' = "returned"
    /\ UNCHANGED <<cache, now, request, tasks, pc, conn, sem, invocations>>
    /\ agent_unchanged

\* time passes
Tick ==
    /\ now < MaxTicks * TickSeconds
    /\ now' = now + TickSeconds
    /\ UNCHANGED <<cache, phase, request, tasks, pc, conn, sem, result, invocations>>
    /\ agent_unchanged

Next ==
    \/ \E req \in Requests : Search(req)
    \/ \E i \in TaskIds : Start(i)
    \/ \E i \in TaskIds : Lookup(i)
    \/ \E i \in TaskIds : Authenticate(i)
    \/ \E i \in TaskIds : SearchReturn(i)
    \/ \E i \in TaskIds : Close(i)
    \/ Return
    \/ Tick

Spec == Init /\ [][Next]_vars

(***************************************************************************)
(* Successive calls of SearchAgent.search on one agent, each for one       *)
(* jurisdiction, then SearchAgent.close.                                   *)
(***************************************************************************)
CallJurisdictions == {<<Montgomery, MD>>, <<Cook, IL>>}

CallRequests == {TitleSearchRequest(MockParcel, <<j>>) : j \in CallJurisdictions}

\* a call of search that has returned, as its caller and its connectors saw it
FinishedCall == [request |-> request, tasks |-> tasks, conn |-> conn, result |-> result]

InitCalls ==
    /\ Init
    /\ "montgomery_md" \in DOMAIN credentials
    /\ max_concurrent_counties = 1

\* search has returned its result; the agent can be called again
NextCall ==
    /\ phase = "returned"
    /\ Len(calls) + 1 < MaxCalls
    /\ calls' = Append(calls, FinishedCall)
    /\ phase' = "idle"
    /\ request' = NoRequest
    /\ tasks' = <<>>
    /\ pc' = <<>>
    /\ conn' = <<>>
    /\ sem' = 0
    /\ result' = NoResult
    /\ invocations' = <<>>
    /\ UNCHANGED <<registry, connector_classes, credentials, max_concurrent_counties,
                   cache, now, _connectors, probe, api_vars, share_vars>>

\* the connectors SearchAgent.close closes: the values of _connectors
tracked_connectors(tracked) == {tracked[n] : n \in DOMAIN tracked}

\* SearchAgent.close: closes every connector in _connectors, then clears it
AgentClose ==
    /\ phase = "returned"
    /\ phase' = "closed"
    /\ conn' = [i \in DOMAIN conn |->
                  IF i \in tracked_connectors(_connectors)
                  THEN [conn[i] EXCEPT !.closed = TRUE, !.authenticated = FALSE]
                  ELSE conn[i]]
    /\ _connectors' = EmptyMap
    /\ UNCHANGED <<registry, connector_classes, credentials, max_concurrent_counties,
                   cache, now, request, tasks, pc, sem, result, calls, probe,
                   invocations, api_vars, share_vars>>

\* time passes, by a shorter step
TickCalls ==
    /\ phase # "closed"
    /\ now < MaxCallTicks * CallTickSeconds
    /\ now' = now + CallTickSeconds
    /\ UNCHANGED <<cache, phase, request, tasks, pc, conn, sem, result, invocations>>
    /\ agent_unchanged

NextCalls ==
    \/ \E req \in CallRequests : Search(req)
    \/ \E i \in TaskIds : Start(i)
    \/ \E i \in TaskIds : Lookup(i)
    \/ \E i \in TaskIds : Authenticate(i)
    \/ \E i \in TaskIds : SearchReturn(i)
    \/ \E i \in TaskIds : Close(i)
    \/ Return
    \/ NextCall
    \/ AgentClose
    \/ TickCalls

SpecCalls == InitCalls /\ [][NextCalls]_vars

(***************************************************************************)
(* Direct use of DocumentCache: one set, then one get, each keyed by       *)
(* _make_key on a county, a state and a SearchCriteria.                    *)
(***************************************************************************)
Pipe == <<"|">>

KeyJurisdictions == {<<Cook, IL>>, <<Montgomery, MD>>}
KeyParcels == {None, MockParcel, Pipe}
KeyAddresses == {None, MainSt, Pipe}
KeyOwners == {None, AliceSmith}

\* SearchCriteria with the fields _make_key does not read either all defaulted
\* or all set
KeyCriteria ==
    { [parcel_number |-> p, property_address |-> a, owner_name |-> o,
       book |-> IF rest THEN <<"7">> ELSE None,
       page |-> IF rest THEN <<"1">> ELSE None,
       instrument_number |-> None,
       start_date |-> IF rest THEN <<0 - SecondsPerDay>> ELSE NoDate,
       end_date |-> IF rest THEN <<0>> ELSE NoDate,
       document_types |-> IF rest THEN {DEED} ELSE {},
       max_results |-> IF rest THEN 1 ELSE 100] :
      p \in KeyParcels, a \in KeyAddresses, o \in KeyOwners, rest \in BOOLEAN }

InitKey ==
    /\ Init
    /\ DOMAIN credentials = {}
    /\ max_concurrent_counties = 1

\* cache.set(cache._make_key(county, state, criteria), documents)
DirectSet(county, state, criteria, documents) ==
    /\ probe.op = "none"
    /\ cache' = cache_set(cache, make_key(county, state, criteria), documents, now)
    /\ probe' = [op |-> "set", county |-> county, state |-> state,
                 criteria |-> criteria, documents |-> documents]
    /\ UNCHANGED <<registry, connector_classes, credentials, max_concurrent_counties,
                   now, phase, request, tasks, pc, conn, sem, result,
                   _connectors, calls, invocations, api_vars, share_vars>>

\* cache.get(cache._make_key(county, state, criteria))
DirectGet(county, state, criteria) ==
    /\ probe.op = "set"
    /\ cache' = cache_after_get(cache, make_key(county, state, criteria), now)
    /\ probe' = [op |-> "get", county |-> county, state |-> state,
                 criteria |-> criteria,
                 got |-> cache_get(cache, make_key(county, state, criteria), now),
                 stored |-> probe]
    /\ UNCHANGED <<registry, connector_classes, credentials, max_concurrent_counties,
                   now, phase, request, tasks, pc, conn, sem, result,
                   _connectors, calls, invocations, api_vars, share_vars>>

NextKey ==
    \/ \E j \in KeyJurisdictions, c \in KeyCriteria :
          DirectSet(j[1], j[2], c, _generate_mock_data(j[1], j[2]))
    \/ \E j \in KeyJurisdictions, c \in KeyCriteria : DirectGet(j[1], j[2], c)

SpecKey == InitKey /\ [][NextKey]_vars

(***************************************************************************)
(* Direct use of the registry and the factory: a county is added, a        *)
(* connector class is registered, a strategy is appended to a descriptor   *)
(* the registry holds, and create_connector is called.                     *)
(***************************************************************************)
SECONDARY == 2

Strategies ==
    { [connector_type |-> "montgomery_md", priority |-> PRIMARY],
      [connector_type |-> "alpha_api", priority |-> SECONDARY],
      [connector_type |-> "mock", priority |-> FALLBACK] }

\* the strategy lists CountyConfig is constructed with, in any order
StrategyLists == UNION {[1..n -> Strategies] : n \in 0..(MaxStrategies - 1)}

EmailOnly == [k \in {"email"} |-> <<"u">>]

\* the credentials the factories tried are constructed with
FactoryCredentials ==
    { EmptyMap,
      [n \in {"montgomery_md"} |-> UserBundle],
      [n \in {"global"} |-> UserBundle],
      [n \in {"montgomery_md", "global"} |->
          IF n = "montgomery_md" THEN EmptyMap ELSE UserBundle],
      [n \in {"montgomery_md", "global"} |->
          IF n = "montgomery_md" THEN EmailOnly ELSE UserBundle] }

ClassNames == {"MockCountyConnector", "MontgomeryCountyMDConnector"}

\* the priority arguments of create_connector; 0 stands for None
Priorities == 0..FALLBACK

InitFactory ==
    /\ registry = load_default_configs
    /\ connector_classes = builtin_connector_classes
    /\ credentials \in FactoryCredentials
    /\ max_concurrent_counties = 1
    /\ cache = EmptyMap
    /\ now = 0
    /\ phase = "idle"
    /\ request = NoRequest
    /\ tasks = <<>>
    /\ pc = <<>>
    /\ conn = <<>>
    /\ sem = 0
    /\ result = NoResult
    /\ _connectors = EmptyMap
    /\ calls = <<>>
    /\ probe = NoProbe
    /\ invocations = <<>>
    /\ InitApi
    /\ lists = <<>>
    /\ held = <<>>

factory_unchanged == UNCHANGED <<max_concurrent_counties, cache, now, phase, request,
                                 tasks, pc, conn, sem, result, _connectors, calls,
                                 invocations, api_vars, share_vars>>

\* registry.add_county(CountyConfig(county, state, connectors))
AddCounty(county, state, connectors) ==
    /\ probe.op = "none"
    /\ county_key_of(county, state) \notin DOMAIN registry
    /\ registry' = add_county(registry, CountyConfig(county, state, connectors, FALSE))
    /\ UNCHANGED <<connector_classes, credentials, probe>>
    /\ factory_unchanged

\* registry.register_connector_class(connector_name, connector_class)
RegisterConnectorClass(connector_name, connector_class) ==
    /\ probe.op = "none"
    /\ connector_name \notin DOMAIN connector_classes
    /\ connector_classes' =
          [n \in DOMAIN connector_classes \cup {connector_name} |->
              IF n = connector_name THEN connector_class ELSE connector_classes[n]]
    /\ UNCHANGED <<registry, credentials, probe>>
    /\ factory_unchanged

\* registry.get_county(county, state).connectors.append(strategy): the list
\* of a descriptor is changed after __post_init__ sorted it
AppendStrategy(county, state, strategy) ==
    LET key == county_key_of(county, state)
    IN /\ probe.op = "none"
       /\ key \in DOMAIN registry
       /\ Len(registry[key].connectors) < MaxStrategies
       /\ registry' = [registry EXCEPT ![key].connectors = Append(@, strategy)]
       /\ UNCHANGED <<connector_classes, credentials, probe>>
       /\ factory_unchanged

\* factory.create_connector(county, state, priority)
CreateConnector(county, state, priority) ==
    LET key == county_key_of(county, state)
        raises == \/ key \notin DOMAIN registry
                  \/ eligible_connectors(registry[key], priority) = <<>>
        connectors == IF raises THEN <<>> ELSE eligible_connectors(registry[key], priority)
    IN /\ probe.op = "none"
       /\ probe' = [op |-> "create_connector",
                    county |-> county, state |-> state, priority |-> priority,
                    outcome |-> create_connector(registry, connector_classes, credentials,
                                                 county, state, priority),
                    attempted |-> IF raises THEN <<>>
                                  ELSE attempted(connectors, registry[key],
                                                 connector_classes, credentials),
                    built_by |-> IF raises THEN 0
                                 ELSE built_by(connectors, registry[key],
                                               connector_classes, credentials)]
       /\ UNCHANGED <<registry, connector_classes, credentials>>
       /\ factory_unchanged

FactoryJurisdictions == {<<Alpha, ST>>, <<Montgomery, MD>>, <<Cook, IL>>, <<Nowhere, ZZ>>}

NextFactory ==
    \/ \E connectors \in StrategyLists : AddCounty(Alpha, ST, connectors)
    \/ \E class \in ClassNames : RegisterConnectorClass("alpha_api", class)
    \/ \E strategy \in Strategies : AppendStrategy(Alpha, ST, strategy)
    \/ \E j \in FactoryJurisdictions, priority \in Priorities :
          CreateConnector(j[1], j[2], priority)

SpecFactory == InitFactory /\ [][NextFactory]_vars

(***************************************************************************)
(* Direct use of CountyConnectorBase.search on a connector whose four      *)
(* sub-searches return given lists.                                        *)
(***************************************************************************)
\* a LandRecordDocument of the searched county
SearchDoc(document_id, document_type, recording_date, page) ==
    [document_id |-> document_id, county |-> Cook, state |-> IL,
     book |-> "1", page |-> page, instrument_number |-> "",
     recording_date |-> recording_date,
     document_type |-> document_type, grantee |-> <<AliceSmith>>,
     parcel_number |-> MockParcel, property_address |-> MainSt]

\* two records share the id "a"; one record has no recording date
DocA == SearchDoc("a", DEED, <<0 - 100 * SecondsPerDay>>, "1")
DocB == SearchDoc("b", DEED, <<0 - 10 * SecondsPerDay>>, "2")
DocA2 == SearchDoc("a", MORTGAGE, <<0 - 5 * SecondsPerDay>>, "3")
DocC == SearchDoc("c", DEED, NoDate, "4")

DocPool == {DocA, DocB, DocA2, DocC}

\* what search_by_parcel can return
SubResults == UNION {[1..n -> DocPool] : n \in 0..MaxSubResults}

\* what search_by_owner, search_by_address and search_by_instrument can return
ShortSubResults == {<<>>} \cup {<<d>> : d \in DocPool}

SearchStarts == {NoDate, <<0 - 100 * SecondsPerDay>>, <<0 - 50 * SecondsPerDay>>}
SearchEnds == {NoDate, <<0 - 10 * SecondsPerDay>>}
SearchLimits == {0, 1, 100}

SearchCriteriaTried ==
    { [parcel_number |-> p, property_address |-> a, owner_name |-> o,
       book |-> b, page |-> None, instrument_number |-> None,
       start_date |-> s, end_date |-> e, document_types |-> t, max_results |-> m] :
      p \in {None, MockParcel}, a \in {None, MainSt}, o \in {None, AliceSmith},
      b \in {None, <<"1">>}, s \in SearchStarts, e \in SearchEnds,
      t \in {{}, {DEED}}, m \in SearchLimits }

\* await connector.search(criteria), the sub-searches returning the given lists
DirectSearch(criteria, by_parcel, by_address, by_owner, by_instrument) ==
    /\ probe.op = "none"
    /\ probe' = [op |-> "search", criteria |-> criteria,
                 by_parcel |-> by_parcel, by_address |-> by_address,
                 by_owner |-> by_owner, by_instrument |-> by_instrument,
                 out |-> unified_search(criteria, by_parcel, by_address, by_owner,
                                        by_instrument)]
    /\ UNCHANGED <<registry, connector_classes, credentials, max_concurrent_counties,
                   cache, now, phase, request, tasks, pc, conn, sem, result,
                   _connectors, calls, invocations, api_vars, share_vars>>

NextSearch ==
    /\ probe.op = "none"
    /\ \E criteria \in SearchCriteriaTried, by_parcel \in SubResults,
          by_owner \in ShortSubResults, by_instrument \in {<<>>, <<DocB>>} :
           DirectSearch(criteria, by_parcel, <<DocA2>>, by_owner, by_instrument)

SpecSearch == InitKey /\ [][NextSearch]_vars

(***************************************************************************)
(* Direct use of CountyRegistry: descriptors are added with add_county,    *)
(* then get_county or list_counties is called.                             *)
(***************************************************************************)
\* the characters of the model's texts in code point order, as Python
\* compares str values
CodePointOrder ==
    <<" ", "-", "0", "1", "2", "3", "4", "5", "6", "7", "8", "9">> \o UpperChars
    \o <<"_">> \o LowerChars \o <<"|">>

\* ord(c)
Ord(c) == CHOOSE i \in 1..Len(CodePointOrder) : CodePointOrder[i] = c

\* a < b on str
RECURSIVE TextLess(_, _)
TextLess(a, b) ==
    IF b = <<>> THEN FALSE
    ELSE IF a = <<>> THEN TRUE
    ELSE IF Head(a) = Head(b) THEN TextLess(Tail(a), Tail(b))
    ELSE Ord(Head(a)) < Ord(Head(b))

\* (c.state, c.county) < (d.state, d.county), the sort key of list_counties
config_less(c, d) ==
    \/ TextLess(c.state, d.state)
    \/ c.state = d.state /\ TextLess(c.county, d.county)

\* sorted(results, key=lambda c: (c.state, c.county)) on descriptors with
\* different keys
RECURSIVE sorted_configs(_)
sorted_configs(configs) ==
    IF configs = {} THEN <<>>
    ELSE LET first == CHOOSE c \in configs :
                          \A d \in configs \ {c} : config_less(c, d)
         IN <<first>> \o sorted_configs(configs \ {first})

\* CountyRegistry.get_county: <<>> for None, <<config>> for a descriptor
get_county(counties, county, state) ==
    LET key == county_key_of(county, state)
    IN IF key \in DOMAIN counties THEN <<counties[key]>> ELSE <<>>

\* CountyRegistry.list_counties; has_online_access is <<>> for None, <<b>>
\* for a flag
list_counties(counties, state, has_online_access) ==
    LET all == {counties[k] : k \in DOMAIN counties}
        by_state == IF state # None
                    THEN {c \in all : c.state = upper(state)}
                    ELSE all
        by_access == IF has_online_access # <<>>
                     THEN {c \in by_state : c.has_online_access = has_online_access[1]}
                     ELSE by_state
    IN sorted_configs(by_access)

\* the (county, state) pairs the descriptors are added under and looked up by
RegistryIdentities ==
    { <<Alpha, ST>>, <<upper(Alpha), lower(ST)>>,
      <<LosAngeles, CA>>, <<replace_space(lower(LosAngeles)), lower(CA)>>,
      <<<<"Y", " ", "X">>, <<"N">>>>, <<<<"X">>, <<"N", " ", "Y">>>> }

RegistryQueries == RegistryIdentities \cup {<<Cook, IL>>, <<Nowhere, ZZ>>}

\* the state filters of list_counties; None is no filter
StateFilters == {None, ST, lower(ST), CA, lower(CA), <<"N">>}

InitRegistry ==
    /\ InitFactory
    /\ credentials = EmptyMap

\* the descriptors added so far by direct calls of add_county, oldest first
added_so_far == IF probe.op = "none" THEN <<>> ELSE probe.added

\* registry.add_county(CountyConfig(county, state, fips_code, connectors,
\* has_online_access=...))
RegistryAdd(county, state, has_online_access) ==
    LET config == CountyConfig(county, state,
                               <<[connector_type |-> "mock", priority |-> FALLBACK]>>,
                               has_online_access)
    IN /\ probe.op \in {"none", "add_county"}
       /\ Len(added_so_far) < MaxAdds
       /\ registry' = add_county(registry, config)
       /\ probe' = [op |-> "add_county", added |-> Append(added_so_far, config)]
       /\ UNCHANGED <<connector_classes, credentials>>
       /\ factory_unchanged

\* registry.get_county(county, state)
GetCounty(county, state) ==
    /\ probe.op \in {"none", "add_county"}
    /\ probe' = [op |-> "get_county", added |-> added_so_far,
                 county |-> county, state |-> state,
                 got |-> get_county(registry, county, state)]
    /\ UNCHANGED <<registry, connector_classes, credentials>>
    /\ factory_unchanged

\* registry.list_counties(state, has_online_access)
ListCounties(state, has_online_access) ==
    /\ probe.op \in {"none", "add_county"}
    /\ probe' = [op |-> "list_counties", added |-> added_so_far,
                 state |-> state, has_online_access |-> has_online_access,
                 out |-> list_counties(registry, state, has_online_access)]
    /\ UNCHANGED <<registry, connector_classes, credentials>>
    /\ factory_unchanged

NextRegistry ==
    \/ \E j \in RegistryIdentities, flag \in BOOLEAN : RegistryAdd(j[1], j[2], flag)
    \/ \E j \in RegistryQueries : GetCounty(j[1], j[2])
    \/ \E state \in StateFilters, flag \in {<<>>, <<TRUE>>, <<FALSE>>} :
          ListCounties(state, flag)

SpecRegistry == InitRegistry /\ [][NextRegistry]_vars

(***************************************************************************)
(* Requests to the identity, title and credential endpoints of app.py.     *)
(* Each handler runs to its response; probe holds the last response and,   *)
(* where a property needs them, the time it was given and the stores as    *)
(* they were when the request arrived.                                     *)
(***************************************************************************)
UserIds == {<<"a">>, <<"b">>}
PropertyIds == {<<"a">>}

\* the uuids a client can name: those drawn so far and one never drawn
KnownUuids == {uuid4(n) : n \in 1..(MaxAnalyses + MaxCredentials + 1)}

\* the uuid the next call of uuid.uuid4() draws
next_uuid ==
    uuid4(Cardinality(DOMAIN analyses) + Cardinality(DOMAIN issued_credentials) + 1)

InitApp ==
    /\ Init
    /\ DOMAIN credentials = {}
    /\ max_concurrent_counties = 1

search_side_unchanged ==
    UNCHANGED <<registry, connector_classes, credentials, max_concurrent_counties,
                cache, phase, request, tasks, pc, conn, sem, result,
                _connectors, calls, invocations, share_vars>>

\* POST /identity/create
CreateIdentity(user_id) ==
    LET did == did_of(UsersType, user_id)
        before == [users |-> users, keys |-> keys, did_documents |-> did_documents]
    IN /\ IF user_exists(users, user_id)
          THEN /\ probe' = [op |-> "create_identity", user_id |-> user_id,
                            status |-> 400, before |-> before]
               /\ UNCHANGED <<users, keys, did_documents, generated>>
          ELSE /\ generated' = generated + 1
               /\ keys' = create_did_keys(keys, did, generated + 1)
               /\ did_documents' = create_did_documents(did_documents, did, generated + 1)
               /\ users' = [u \in DOMAIN users \cup {user_id} |->
                               IF u = user_id
                               THEN [did |-> did, credentials |-> <<>>]
                               ELSE users[u]]
               /\ probe' = [op |-> "create_identity", user_id |-> user_id,
                            status |-> 200, before |-> before, did |-> did]
       /\ UNCHANGED <<properties, analyses, issued_credentials, revoked, now>>
       /\ search_side_unchanged

\* POST /property/register
RegisterProperty(property_id) ==
    LET did == did_of(PropertyType, property_id)
    IN /\ IF property_id \in DOMAIN properties
          THEN /\ probe' = [op |-> "register_property", property_id |-> property_id,
                            status |-> 400]
               /\ UNCHANGED <<properties, keys, did_documents, generated>>
          ELSE /\ generated' = generated + 1
               /\ keys' = create_did_keys(keys, did, generated + 1)
               /\ did_documents' = create_did_documents(did_documents, did, generated + 1)
               /\ properties' = [q \in DOMAIN properties \cup {property_id} |->
                                    IF q = property_id
                                    THEN [did |-> did, credentials |-> <<>>]
                                    ELSE properties[q]]
               /\ probe' = [op |-> "register_property", property_id |-> property_id,
                            status |-> 200]
       /\ UNCHANGED <<users, analyses, issued_credentials, revoked, now>>
       /\ search_side_unchanged

\* POST /title/upload: the file type is allowed or not, the analyzer returns
\* or raises
UploadDocument(allowed, analyzed) ==
    /\ Cardinality(DOMAIN analyses) < MaxAnalyses
    /\ IF ~allowed
       THEN /\ probe' = [op |-> "upload_document", status |-> 400]
            /\ UNCHANGED analyses
       ELSE /\ analyses' = [a \in DOMAIN analyses \cup {next_uuid} |->
                               IF a = next_uuid
                               THEN [status |-> IF analyzed THEN "complete" ELSE "error"]
                               ELSE analyses[a]]
            /\ probe' = [op |-> "upload_document",
                         status |-> IF analyzed THEN 200 ELSE 500,
                         analysis_id |-> next_uuid]
    /\ UNCHANGED <<users, properties, keys, did_documents, generated,
                   issued_credentials, revoked, now>>
    /\ search_side_unchanged

\* POST /credential/issue
IssueCredential(user_id, analysis_id) ==
    LET refused == IF user_id \notin DOMAIN users THEN 404
                   ELSE IF analysis_id \notin DOMAIN analyses THEN 404
                   ELSE IF analyses[analysis_id].status # "complete" THEN 400
                   ELSE 0
        credential == issue_property_credential(keys, urn(next_uuid), users[user_id].did,
                                                analysis_id, now)
    IN /\ Cardinality(DOMAIN issued_credentials) < MaxCredentials
       /\ IF refused # 0
          THEN /\ probe' = [op |-> "issue_credential", user_id |-> user_id,
                            analysis_id |-> analysis_id, status |-> refused,
                            before |-> issued_credentials]
               /\ UNCHANGED <<users, issued_credentials>>
          ELSE /\ issued_credentials' =
                     [c \in DOMAIN issued_credentials \cup {credential.id} |->
                         IF c = credential.id THEN credential ELSE issued_credentials[c]]
               /\ users' = [users EXCEPT ![user_id].credentials = Append(@, credential.id)]
               /\ probe' = [op |-> "issue_credential", user_id |-> user_id,
                            analysis_id |-> analysis_id, status |-> 200,
                            before |-> issued_credentials, credential |-> credential]
       /\ UNCHANGED <<properties, analyses, keys, did_documents, generated, revoked, now>>
       /\ search_side_unchanged

\* GET /credential/verify/{credential_id}
VerifyCredential(credential_id) ==
    LET full_id == urn(credential_id)
    IN /\ IF full_id \notin DOMAIN issued_credentials
          THEN probe' = [op |-> "verify_credential", credential_id |-> full_id,
                         status |-> 404, at |-> now]
          ELSE probe' = [op |-> "verify_credential", credential_id |-> full_id,
                         status |-> 200, at |-> now,
                         verification_result |->
                             verify_credential(issued_credentials[full_id], revoked,
                                               keys, now)]
       /\ UNCHANGED <<api_vars, now>>
       /\ search_side_unchanged

\* POST /credential/revoke/{credential_id}
RevokeCredential(credential_id) ==
    LET full_id == urn(credential_id)
    IN /\ IF full_id \notin DOMAIN issued_credentials
          THEN /\ probe' = [op |-> "revoke_credential", credential_id |-> full_id,
                            status |-> 404]
               /\ UNCHANGED revoked
          ELSE /\ revoked' = revoke_credential(revoked, full_id)
               /\ probe' = [op |-> "revoke_credential", credential_id |-> full_id,
                            status |-> 200]
       /\ UNCHANGED <<users, properties, analyses, keys, did_documents, generated,
                      issued_credentials, now>>
       /\ search_side_unchanged

\* time passes between requests
TickApi ==
    /\ now < MaxApiTicks * ApiTickSeconds
    /\ now' = now + ApiTickSeconds
    /\ UNCHANGED <<api_vars, probe>>
    /\ search_side_unchanged

NextApp ==
    \/ \E user_id \in UserIds : CreateIdentity(user_id)
    \/ \E property_id \in PropertyIds : RegisterProperty(property_id)
    \/ \E allowed \in BOOLEAN, analyzed \in BOOLEAN : UploadDocument(allowed, analyzed)
    \/ \E user_id \in UserIds, analysis_id \in KnownUuids :
          IssueCredential(user_id, analysis_id)
    \/ \E credential_id \in KnownUuids : VerifyCredential(credential_id)
    \/ \E credential_id \in KnownUuids : RevokeCredential(credential_id)
    \/ TickApi

SpecApp == InitApp /\ [][NextApp]_vars

(***************************************************************************)
(* One call of SearchAgent.search whose request may leave parcel_number,   *)
(* property_address and current_owner all unset.                           *)
(***************************************************************************)
QueryParcels == {None, MockParcel}

QueryCountyLists == UNION {[1..n -> Jurisdictions] : n \in 0..MaxQueryTasks}

QueryRequests == {TitleSearchRequest(p, cs) : p \in QueryParcels, cs \in QueryCountyLists}

NextQuery ==
    \/ \E req \in QueryRequests : Search(req)
    \/ \E i \in TaskIds : Start(i)
    \/ \E i \in TaskIds : Lookup(i)
    \/ \E i \in TaskIds : Authenticate(i)
    \/ \E i \in TaskIds : SearchReturn(i)
    \/ \E i \in TaskIds : Close(i)
    \/ Return

SpecQuery == Init /\ [][NextQuery]_vars

(***************************************************************************)
(* Properties.  Spec is one call of SearchAgent.search on a freshly        *)
(* constructed agent with the default registry.                            *)
(***************************************************************************)
HasReturned == phase = "returned"
NumCounties == Len(request.counties)
Terminal == {COMPLETED, FAILED}
InProgress == {i \in DOMAIN tasks : tasks[i].status = IN_PROGRESS}
LabelOf(i) == tasks[i].county \o <<",", " ">> \o tasks[i].state

\* C1: the result of a call naming n >= 1 jurisdictions has
\* counties_searched = n and counties_succeeded + counties_failed = n.
C1_CountsAddUp ==
    (HasReturned /\ NumCounties >= 1) =>
        /\ result.counties_searched = NumCounties
        /\ result.counties_succeeded + result.counties_failed = NumCounties

\* a three-jurisdiction call has returned with successes and failures
C1_Witness ==
    /\ HasReturned /\ NumCounties = 3
    /\ result.counties_succeeded >= 1 /\ result.counties_failed >= 1

\* C2: in every returned result over n jurisdictions, COMPLETED iff
\* succeeded = n > 0, PARTIAL iff 0 < succeeded < n, FAILED iff succeeded = 0.
C2_StatusMatchesCounts ==
    HasReturned =>
        /\ result.status = COMPLETED <=>
              (result.counties_succeeded = NumCounties /\ NumCounties > 0)
        /\ result.status = PARTIAL <=>
              (0 < result.counties_succeeded /\ result.counties_succeeded < NumCounties)
        /\ result.status = FAILED <=> result.counties_succeeded = 0

\* a call has returned PARTIAL
C2_Witness == HasReturned /\ result.status = PARTIAL /\ NumCounties >= 2

\* C3: a call with an empty jurisdiction list returns at once, FAILED with one
\* error entry and all counts zero, leaving tasks, cache and connectors alone.
C3_EmptyRequestFailsFast ==
    [][(phase = "idle" /\ phase' # "idle" /\ request'.counties = <<>>) =>
          /\ phase' = "returned"
          /\ result'.status = FAILED
          /\ result'.errors = <<[error |-> <<"No counties specified for search">>]>>
          /\ result'.counties_searched = 0
          /\ result'.counties_succeeded = 0
          /\ result'.counties_failed = 0
          /\ UNCHANGED <<cache, tasks, pc, conn, sem>>]_vars

\* a call with an empty jurisdiction list has returned
C3_Witness == HasReturned /\ request.counties = <<>> /\ result.status = FAILED

\* C4: a task's status only moves PENDING -> IN_PROGRESS -> COMPLETED or
\* PENDING -> IN_PROGRESS -> FAILED, and a terminal status never changes.
C4_TaskLifecycle ==
    [][\A i \in DOMAIN tasks :
          (i \in DOMAIN tasks' /\ phase = "running") =>
              \/ tasks'[i].status = tasks[i].status
              \/ <<tasks[i].status, tasks'[i].status>> \in
                    { <<PENDING, IN_PROGRESS>>, <<IN_PROGRESS, COMPLETED>>,
                      <<IN_PROGRESS, FAILED>> }]_vars

\* C5: at most max_concurrent_counties tasks are IN_PROGRESS at any time.
C5_ConcurrencyBound ==
    phase = "running" => Cardinality(InProgress) <= max_concurrent_counties

\* more jurisdictions than the limit, and the limit is reached
C5_Witness ==
    /\ phase = "running"
    /\ Len(tasks) > max_concurrent_counties
    /\ max_concurrent_counties = 2
    /\ Cardinality(InProgress) = 2

\* C6: a non-empty call returns only when every task is COMPLETED or FAILED.
C6_ReturnsAfterAllTerminal ==
    (HasReturned /\ NumCounties >= 1) =>
        \A i \in DOMAIN tasks : tasks[i].status \in Terminal

\* a three-task call has returned
C6_Witness ==
    /\ HasReturned /\ Len(tasks) = 3
    /\ \A i \in DOMAIN tasks : tasks[i].status \in Terminal

\* C7: a task that has not completed within timeout_seconds of the start of
\* the call is FAILED (with a timeout error), never COMPLETED.
C7_TimeoutEnforced ==
    \A i \in DOMAIN tasks :
        (tasks[i].status = COMPLETED /\ result.status # "none") =>
            tasks[i].completed_at[1] - result.started_at[1] <= request.timeout_seconds

\* a COMPLETED task j of the call stored the cache entry for task i's key
StoredAndCompleted(j, i) ==
    /\ tasks[j].status = COMPLETED
    /\ conn[j].kind # "none"
    /\ make_key(tasks[j].county, tasks[j].state, tasks[j].criteria)
         = make_key(tasks[i].county, tasks[i].state, tasks[i].criteria)

\* task i was served from the cache
ServedFromCache(i) == tasks[i].status = COMPLETED /\ conn[i].kind = "none"

\* C8: a task on whose path an exception was raised is the only one marked
\* FAILED by it, and its siblings end as they would without it: a sibling
\* served from the cache (empty when the call began) was served an entry
\* stored by a task that did not fail.
C8_FaultIsolation ==
    HasReturned =>
        /\ \A i \in DOMAIN tasks :
              (conn[i].kind # "none" /\ conn[i].raised) =>
                  tasks[i].status = FAILED /\ tasks[i].error # None
        /\ \A i \in DOMAIN tasks : tasks[i].status \in Terminal
        /\ \A i \in DOMAIN tasks :
              ServedFromCache(i) =>
                  \E j \in DOMAIN tasks \ {i} : StoredAndCompleted(j, i)

\* create_connector raises for the jurisdiction of task i: it is not
\* registered, or its descriptor has no strategy
CreateConnectorRaises(i) ==
    LET key == county_key_of(tasks[i].county, tasks[i].state)
    IN \/ key \notin DOMAIN registry
       \/ registry[key].connectors = <<>>

\* every strategy of the jurisdiction of task i fails to construct
EveryStrategyFails(i) ==
    LET key == county_key_of(tasks[i].county, tasks[i].state)
    IN /\ key \in DOMAIN registry
       /\ \A s \in DOMAIN registry[key].connectors :
             ~instantiate_connector(registry[key].connectors[s], registry[key],
                                    connector_classes, credentials).ok

\* connector construction always fails for the jurisdiction of task i
ConstructionAlwaysFails(i) == CreateConnectorRaises(i) \/ EveryStrategyFails(i)

\* the connector of task i worked: no operation of it raised
ConnectorWorked(i) == conn[i].kind # "none" /\ ~conn[i].raised

ThreeDistinct ==
    /\ Len(tasks) = 3
    /\ \A i, j \in DOMAIN tasks : i # j => request.counties[i] # request.counties[j]

\* what C9 promises for the failing task f
IsolatedFailure(f) ==
    /\ result.counties_succeeded = 2
    /\ result.counties_failed = 1
    /\ result.status = PARTIAL
    /\ \A i \in DOMAIN tasks \ {f} :
          /\ LabelOf(i) \in DOMAIN result.documents_by_county
          /\ result.documents_by_county[LabelOf(i)] = conn[i].returned
    /\ LabelOf(f) \notin DOMAIN result.documents_by_county

\* C9 as the specification states it: in a call for three jurisdictions where connector
\* construction always fails for exactly one (the connectors of the other two
\* work), the result has 2 succeeded, 1 failed, status PARTIAL, and
\* documents_by_county holds the other two lists as their connectors returned them.
C9_ConstructionFailureIsolated ==
    \A f \in DOMAIN tasks :
        ( /\ HasReturned /\ ThreeDistinct
          /\ ConstructionAlwaysFails(f)
          /\ \A i \in DOMAIN tasks \ {f} :
                ~ConstructionAlwaysFails(i) /\ ConnectorWorked(i) )
        => IsolatedFailure(f)

\* C9 as amended: the same, where create_connector raises for exactly one of
\* the three jurisdictions (not registered, or no strategy); a jurisdiction
\* whose strategies all fail to construct is served by the stub connector.
C9_CreateConnectorFailureIsolated ==
    \A f \in DOMAIN tasks :
        ( /\ HasReturned /\ ThreeDistinct
          /\ CreateConnectorRaises(f)
          /\ \A i \in DOMAIN tasks \ {f} :
                ~CreateConnectorRaises(i) /\ ConnectorWorked(i) )
        => IsolatedFailure(f)

\* such a call has returned: one of the other two was served by the MDLandRec
\* connector with a document, the other by the stub after its only strategy
\* failed to construct
C9_Witness ==
    /\ HasReturned /\ ThreeDistinct
    /\ \E f \in DOMAIN tasks :
          /\ CreateConnectorRaises(f)
          /\ \A i \in DOMAIN tasks \ {f} :
                ~CreateConnectorRaises(i) /\ ConnectorWorked(i)
          /\ \E i \in DOMAIN tasks \ {f} :
                conn[i].kind = "montgomery_md" /\ conn[i].returned # <<>>
          /\ \E i \in DOMAIN tasks \ {f} : EveryStrategyFails(i)

\* C10: every returned result has status COMPLETED, PARTIAL or FAILED, and
\* its error list has an entry naming each failed jurisdiction.
C10_CompleteResult ==
    HasReturned =>
        /\ result.status \in {COMPLETED, PARTIAL, FAILED}
        /\ \A i \in DOMAIN tasks :
              tasks[i].status # COMPLETED =>
                  \E e \in DOMAIN result.errors :
                      /\ "county" \in DOMAIN result.errors[e]
                      /\ result.errors[e].county = LabelOf(i)
                      /\ result.errors[e].error = tasks[i].error

\* a call has returned with a task failed by the factory and one failed by
\* its connector
C10_Witness ==
    /\ HasReturned
    /\ \E i, j \in DOMAIN tasks :
          /\ tasks[i].status = FAILED /\ conn[i].kind = "none"
          /\ tasks[j].status = FAILED /\ conn[j].kind # "none" /\ conn[j].raised

(***************************************************************************)
(* Properties of successive calls (SpecCalls).                             *)
(***************************************************************************)
PreviousCall == calls[Len(calls)]

\* the cache key of task i of the running call
KeyOf(i) == make_key(tasks[i].county, tasks[i].state, tasks[i].criteria)

\* the calls of connector.search issued by the connectors cs
SearchesIssued(cs) == Cardinality({i \in DOMAIN cs : cs[i].kind # "none" /\ cs[i].searched})

\* the previous call and the one that has just returned name the same
\* jurisdiction and criteria, the previous call's connector returned a list
\* and its task completed, and the later call returned within the TTL window
\* that began when the previous call started
RepeatedWithinTtl ==
    /\ HasReturned /\ calls # <<>>
    /\ PreviousCall.request = request
    /\ PreviousCall.conn[1].kind # "none"
    /\ PreviousCall.tasks[1].status = COMPLETED
    /\ tasks[1].status = COMPLETED
    /\ result.completed_at[1] - PreviousCall.result.started_at[1] < ttl_seconds

\* C11: of two successive calls with the same jurisdiction and criteria, the
\* second within the TTL window of the first, at most one connector search is
\* issued in total and the second call's documents equal the first's, for
\* every list the first call's connector returns, the empty list included.
C11_CacheIdempotence ==
    RepeatedWithinTtl =>
        /\ SearchesIssued(PreviousCall.conn) + SearchesIssued(conn) <= 1
        /\ result.all_documents = PreviousCall.result.all_documents

\* C12: DocumentCache.get never returns an entry whose age is ttl_seconds or
\* more, however many hits it served: the read deletes the entry, the task is
\* not completed from the cache but obtains a connector, and the list that
\* connector's search returns is stored as a new entry dated now.
C12_ExpiredEntryNeverReturned ==
    [][\A i \in DOMAIN pc :
         /\ (pc[i] = "lookup" /\ i \in DOMAIN pc' /\ pc'[i] # "lookup") =>
               LET expired == /\ KeyOf(i) \in DOMAIN cache
                              /\ now - cache[KeyOf(i)].cached_at >= ttl_seconds
               IN /\ expired => /\ KeyOf(i) \notin DOMAIN cache'
                                /\ tasks'[i].status = IN_PROGRESS
                                /\ conn'[i].kind # "none"
                                /\ pc'[i] = "authenticate"
                  /\ tasks'[i].status = COMPLETED =>
                                /\ KeyOf(i) \in DOMAIN cache
                                /\ now - cache[KeyOf(i)].cached_at < ttl_seconds
                                /\ tasks'[i].results = cache[KeyOf(i)].documents
         /\ (pc[i] = "search" /\ i \in DOMAIN pc' /\ pc'[i] = "close") =>
               cache'[KeyOf(i)] = [cached_at |-> now, documents |-> conn'[i].returned]
    ]_vars

\* an entry stored by the first call served the second call, had expired when
\* the third call read it, and has been replaced by what the third call's
\* connector returned
C12_Witness ==
    /\ Len(calls) = 2
    /\ phase = "running"
    /\ calls[1].request = request /\ calls[2].request = request
    /\ calls[1].conn[1].kind # "none"
    /\ calls[2].conn[1].kind = "none" /\ calls[2].tasks[1].status = COMPLETED
    /\ pc[1] = "close"
    /\ tasks[1].started_at[1] - calls[1].tasks[1].completed_at[1] >= ttl_seconds
    /\ cache[KeyOf(1)].cached_at = now

\* C18: once SearchAgent.close has run, every connector a task obtained from
\* the factory is closed, whether the task completed or failed.
C18_ConnectorsClosed ==
    phase = "closed" =>
        \A i \in DOMAIN conn : conn[i].kind # "none" => conn[i].closed
(***************************************************************************)
(* Properties of the cache key (SpecKey).                                  *)
(***************************************************************************)
\* the five values the fingerprint is to be a function of
FiveValues(x) == <<x.county, x.state, x.criteria.parcel_number,
                   x.criteria.property_address, x.criteria.owner_name>>

\* C13: a get finds the entry a set stored exactly when the two agree on
\* county, state, parcel number, address and owner name, whatever their date
\* range, document kinds, max results and book/page are.
C13_KeyIsTheFiveValues ==
    probe.op = "get" =>
        ((probe.got = probe.stored.documents) <=> (FiveValues(probe) = FiveValues(probe.stored)))
(***************************************************************************)
(* Properties of the factory (SpecFactory).                                *)
(***************************************************************************)
Created == probe.op = "create_connector"

\* the descriptor the registry holds for the jurisdiction of the call
ProbedKey == county_key_of(probe.county, probe.state)
Registered == ProbedKey \in DOMAIN registry
Descriptor == registry[ProbedKey]

\* the positions of the descriptor's strategies the call may use
EligiblePositions ==
    {k \in DOMAIN Descriptor.connectors :
        probe.priority = 0 \/ Descriptor.connectors[k].priority <= probe.priority}

\* the construction of a strategy succeeds
Constructs(strategy) ==
    instantiate_connector(strategy, Descriptor, connector_classes, credentials).ok

\* C14: create_connector fails with "County not found" when the registry
\* holds no descriptor for the jurisdiction, and with "No suitable connector
\* found" when no strategy of the descriptor has priority <= the given one;
\* in both cases no strategy is attempted and no connector is returned.
C14_FactoryErrors ==
    Created =>
        /\ ~Registered =>
              /\ ~probe.outcome.ok
              /\ probe.outcome.error[1] = "County not found"
              /\ probe.attempted = <<>>
        /\ (Registered /\ EligiblePositions = {}) =>
              /\ ~probe.outcome.ok
              /\ probe.outcome.error[1] = "No suitable connector found"
              /\ probe.attempted = <<>>
        /\ (Registered /\ EligiblePositions # {}) => probe.outcome.ok

\* a descriptor with strategies, none of them within the given priority
C14_Witness ==
    /\ Created /\ Registered
    /\ Descriptor.connectors # <<>>
    /\ probe.priority # 0
    /\ EligiblePositions = {}
    /\ ~probe.outcome.ok

\* C15: create_connector attempts the strategies in ascending priority
\* number and returns the connector of the lowest-numbered strategy whose
\* construction succeeds, also for a descriptor whose list was changed after
\* its construction.
C15_AscendingPriority ==
    (Created /\ Registered) =>
        /\ \A k, l \in DOMAIN probe.attempted :
              k < l => probe.attempted[k].priority <= probe.attempted[l].priority
        /\ probe.built_by # 0 =>
              \A k \in EligiblePositions :
                  Constructs(Descriptor.connectors[k]) =>
                      probe.attempted[probe.built_by].priority
                          <= Descriptor.connectors[k].priority

\* C16: when the jurisdiction is registered, has an eligible strategy, and
\* the construction of every eligible strategy fails, create_connector
\* returns the stub for the county and state it was called with; with a
\* failing strategy at priority 1 and the stub at priority 4 it returns the stub.
C16_StubWhenAllFail ==
    (Created /\ Registered /\ EligiblePositions # {}) =>
        /\ (\A k \in EligiblePositions : ~Constructs(Descriptor.connectors[k])) =>
              /\ probe.outcome.ok
              /\ probe.outcome.connector = Connector("mock", probe.county, probe.state)
        /\ ( /\ Len(Descriptor.connectors) = 2 /\ EligiblePositions = {1, 2}
             /\ Descriptor.connectors[1].priority = PRIMARY
             /\ ~Constructs(Descriptor.connectors[1])
             /\ Descriptor.connectors[2] = [connector_type |-> "mock", priority |-> FALLBACK] ) =>
              /\ probe.outcome.ok
              /\ probe.outcome.connector.kind = "mock"

\* every eligible strategy failed: one for missing credentials, one for an
\* unknown connector type
C16_Witness ==
    /\ Created /\ Registered
    /\ \A k \in EligiblePositions : ~Constructs(Descriptor.connectors[k])
    /\ \E k \in EligiblePositions : Descriptor.connectors[k].connector_type = "montgomery_md"
    /\ \E k \in EligiblePositions :
          Descriptor.connectors[k].connector_type \notin DOMAIN connector_classes
    /\ probe.outcome.ok

\* a bundle supplies the email and the password
Supplies(creds, name) ==
    /\ name \in DOMAIN creds
    /\ bundle_get(creds[name], "email") # None
    /\ bundle_get(creds[name], "password") # None

\* the strategy is built by the MDLandRec class, which requires credentials,
\* and neither its own bundle nor the 'global' one supplies them
LacksCredentials(strategy) ==
    /\ strategy.connector_type \in DOMAIN connector_classes
    /\ connector_classes[strategy.connector_type] = "MontgomeryCountyMDConnector"
    /\ ~Supplies(credentials, strategy.connector_type)
    /\ ~Supplies(credentials, "global")

\* C17: a strategy whose builder requires credentials that neither bundle
\* supplies is skipped and the next eligible strategy is tried; each eligible
\* strategy is attempted at most once, in list order, and the call raises nothing.
C17_MissingCredentialsSkip ==
    (Created /\ Registered /\ EligiblePositions # {}) =>
        LET eligible == eligible_connectors(Descriptor, probe.priority)
        IN /\ Len(probe.attempted) <= Len(eligible)
           /\ \A k \in DOMAIN probe.attempted : probe.attempted[k] = eligible[k]
           /\ \A k \in DOMAIN probe.attempted :
                 LacksCredentials(probe.attempted[k]) =>
                    /\ probe.outcome.ok
                    /\ probe.built_by # k
                    /\ k < Len(eligible) => Len(probe.attempted) > k

\* a strategy was skipped for missing credentials and the next one was built
C17_Witness ==
    /\ Created /\ Registered
    /\ Len(probe.attempted) >= 2
    /\ LacksCredentials(probe.attempted[1])
    /\ probe.built_by = 2
(***************************************************************************)
(* Properties of CountyConnectorBase.search (SpecSearch).                  *)
(***************************************************************************)
Searched == probe.op = "search"

\* the results of the populated sub-searches: parcel, address, owner, reference
Concatenated ==
    (IF probe.criteria.parcel_number # None THEN probe.by_parcel ELSE <<>>)
    \o (IF probe.criteria.property_address # None THEN probe.by_address ELSE <<>>)
    \o (IF probe.criteria.owner_name # None THEN probe.by_owner ELSE <<>>)
    \o (IF probe.criteria.book # None \/ probe.criteria.page # None
           \/ probe.criteria.instrument_number # None
        THEN probe.by_instrument ELSE <<>>)

\* the document passes the kind filter and the date range of the criteria
Allowed(doc) ==
    /\ probe.criteria.document_types # {} =>
          doc.document_type \in probe.criteria.document_types
    /\ probe.criteria.start_date # NoDate =>
          /\ doc.recording_date # NoDate
          /\ doc.recording_date[1] >= probe.criteria.start_date[1]
    /\ probe.criteria.end_date # NoDate =>
          /\ doc.recording_date # NoDate
          /\ doc.recording_date[1] <= probe.criteria.end_date[1]

\* the positions of Concatenated holding an allowed document with the id
PositionsOf(document_id) ==
    {i \in DOMAIN Concatenated :
        Allowed(Concatenated[i]) /\ Concatenated[i].document_id = document_id}

\* the first of them
FirstPosition(document_id) ==
    CHOOSE i \in PositionsOf(document_id) : \A j \in PositionsOf(document_id) : i <= j

\* C19: the result of search holds no two documents with the same
\* document_id; each is the first allowed document with its id among the
\* concatenated sub-search results, and the result keeps their order.
C19_FirstOfEachId ==
    Searched =>
        /\ \A k, l \in DOMAIN probe.out :
              k # l => probe.out[k].document_id # probe.out[l].document_id
        /\ \A k \in DOMAIN probe.out :
              /\ PositionsOf(probe.out[k].document_id) # {}
              /\ probe.out[k] = Concatenated[FirstPosition(probe.out[k].document_id)]
        /\ \A k, l \in DOMAIN probe.out :
              k < l => FirstPosition(probe.out[k].document_id)
                          < FirstPosition(probe.out[l].document_id)

\* two different allowed records share an id, and the result holds the first
C19_Witness ==
    /\ Searched
    /\ \E i, j \in DOMAIN Concatenated :
          /\ i < j
          /\ Allowed(Concatenated[i]) /\ Allowed(Concatenated[j])
          /\ Concatenated[i].document_id = Concatenated[j].document_id
          /\ Concatenated[i] # Concatenated[j]
          /\ \E k \in DOMAIN probe.out : probe.out[k] = Concatenated[i]
    /\ Len(probe.out) >= 2

\* the positions of Concatenated the result is made of: allowed documents
\* not preceded by an allowed document with the same id
KeptPositions ==
    {i \in DOMAIN Concatenated :
        /\ Allowed(Concatenated[i])
        /\ \A j \in 1..(i - 1) :
              Allowed(Concatenated[j]) =>
                  Concatenated[j].document_id # Concatenated[i].document_id}

\* the k-th of them
KeptPosition(k) ==
    CHOOSE i \in KeptPositions : Cardinality({j \in KeptPositions : j < i}) = k - 1

BlankQuery ==
    /\ request.parcel_number = None
    /\ request.property_address = None
    /\ request.current_owner = None

\* C21: a call whose request names at least one jurisdiction and sets none of
\* parcel number, address and owner name issues no connector search and does
\* not return status COMPLETED.
C21_IdentifyingFieldRequired ==
    (HasReturned /\ NumCounties >= 1 /\ BlankQuery) =>
        /\ result.status # COMPLETED
        /\ \A i \in DOMAIN invocations : invocations[i].search = 0

(***************************************************************************)
(* Properties of SpecRegistry.                                             *)
(***************************************************************************)
\* a (county, state) pair up to letter case and space/underscore
NormalizedIdentity(county, state) ==
    <<replace_space(lower(county)), replace_space(lower(state))>>

IdentityOf(config) == NormalizedIdentity(config.county, config.state)

\* the descriptors the registry is constructed with
DefaultConfigs == {load_default_configs[k] : k \in DOMAIN load_default_configs}

\* the descriptor last added under the identity of (county, state): <<>> when
\* none was
LastAddedAs(county, state) ==
    LET later == {i \in 1..Len(probe.added) :
                    IdentityOf(probe.added[i]) = NormalizedIdentity(county, state)}
        first == {d \in DefaultConfigs : IdentityOf(d) = NormalizedIdentity(county, state)}
    IN IF later # {}
       THEN <<probe.added[CHOOSE i \in later : \A j \in later : j <= i]>>
       ELSE IF first # {} THEN <<CHOOSE d \in first : TRUE>>
       ELSE <<>>

\* C22: get_county(c, s) returns the descriptor last added under the identity
\* of (c, s), compared up to letter case and space/underscore, and nothing
\* for an identity never added; the registry never holds two descriptors of
\* one identity.
C22_RegistryIdentity ==
    /\ probe.op = "get_county" => probe.got = LastAddedAs(probe.county, probe.state)
    /\ \A k1, k2 \in DOMAIN registry :
          k1 # k2 => IdentityOf(registry[k1]) # IdentityOf(registry[k2])

\* the registered descriptors that pass the filters of the last
\* list_counties call, the state compared as identities are
Listed ==
    {d \in {registry[k] : k \in DOMAIN registry} :
        /\ probe.state # None =>
              replace_space(lower(d.state)) = replace_space(lower(probe.state))
        /\ probe.has_online_access # <<>> =>
              d.has_online_access = probe.has_online_access[1]}

\* C24: list_counties returns exactly the registered descriptors that pass
\* its filters (the state compared ignoring letter case), each once, in
\* ascending order of (state, county); with no filter, all of them.
C24_ListCounties ==
    probe.op = "list_counties" =>
        /\ {probe.out[i] : i \in 1..Len(probe.out)} = Listed
        /\ Len(probe.out) = Cardinality(Listed)
        /\ \A i, j \in 1..Len(probe.out) :
              i < j => config_less(probe.out[i], probe.out[j])
        /\ (probe.state = None /\ probe.has_online_access = <<>>) =>
              Len(probe.out) = Cardinality(DOMAIN registry)

(***************************************************************************)
(* Properties of SpecFactory, continued.                                   *)
(***************************************************************************)
\* C23: the strategy list of every descriptor the registry holds is sorted
\* ascending by priority number, in every reachable state.
C23_StrategyListsSorted ==
    \A k \in DOMAIN registry :
        \A i, j \in 1..Len(registry[k].connectors) :
            i < j => registry[k].connectors[i].priority <= registry[k].connectors[j].priority

(***************************************************************************)
(* Properties of SpecQuery, continued.  The registry holds ("Alpha","ST")  *)
(* with one strategy that cannot be constructed, so the factory serves it  *)
(* with MockCountyConnector("Alpha", "ST").                                *)
(***************************************************************************)
\* the call was for ("Alpha","ST") alone, by the parcel number of the stub's
\* data, and has returned
AlphaExample ==
    /\ HasReturned
    /\ request.counties = <<<<Alpha, ST>>>>
    /\ request.parcel_number = MockParcel

\* C25: a request for ("Alpha","ST") alone with parcel number "12-345-6789",
\* served by the stub connector, returns total_documents = 2, status
\* COMPLETED and counties_succeeded = 1.
C25_StubExample ==
    AlphaExample =>
        /\ result.total_documents = 2
        /\ result.status = COMPLETED
        /\ result.counties_succeeded = 1

\* the example has run: the stub was searched and returned its deed and its
\* mortgage for the parcel
C25_Witness ==
    /\ AlphaExample
    /\ conn[1].kind = "mock"
    /\ invocations[1].search = 1
    /\ Len(result.all_documents) = 2
    /\ {result.all_documents[i].document_type : i \in 1..2} = {DEED, MORTGAGE}
    /\ \A i \in 1..2 : result.all_documents[i].parcel_number = MockParcel

\* C29: within one call, create_connector is invoked at most once and the
\* connector's search at most once for each task, whatever its outcome.
C29_NoRetry ==
    \A i \in DOMAIN invocations :
        /\ invocations[i].create_connector <= 1
        /\ invocations[i].search <= 1

\* a call has returned in which one task failed after its connector was
\* created and searched, one failed in create_connector, and neither was
\* tried again
C29_Witness ==
    /\ HasReturned
    /\ \E i, j \in DOMAIN tasks :
          /\ tasks[i].status = FAILED
          /\ invocations[i] = [create_connector |-> 1, search |-> 1]
          /\ tasks[j].status = FAILED
          /\ invocations[j] = [create_connector |-> 1, search |-> 0]
          /\ conn[j] = NoConn

\* the result lists of the COMPLETED tasks of ts, one after the other
RECURSIVE CompletedResults(_)
CompletedResults(ts) ==
    IF ts = <<>> THEN <<>>
    ELSE (IF Head(ts).status = COMPLETED THEN Head(ts).results ELSE <<>>)
         \o CompletedResults(Tail(ts))

FailedTasks == {i \in DOMAIN tasks : tasks[i].status # COMPLETED}

\* C30: in the result of a call naming at least one jurisdiction,
\* all_documents is the concatenation, in task order, of the result lists of
\* the COMPLETED tasks, each as its connector returned it and with nothing
\* removed; total_documents is its length; errors has one entry per FAILED
\* task and as many entries as counties_failed.
C30_Aggregation ==
    (HasReturned /\ NumCounties >= 1) =>
        /\ result.all_documents = CompletedResults(tasks)
        /\ \A i \in DOMAIN tasks :
              (tasks[i].status = COMPLETED /\ invocations[i].search = 1) =>
                  tasks[i].results = conn[i].returned
        /\ result.total_documents = Len(result.all_documents)
        /\ Len(result.errors) = Cardinality(FailedTasks)
        /\ Len(result.errors) = result.counties_failed
        /\ \A i \in FailedTasks :
              \E e \in 1..Len(result.errors) : result.errors[e].county = LabelOf(i)

\* two jurisdictions were served by connectors that returned documents with
\* the same document ids, and the combined list holds all four documents
C30_Witness ==
    /\ HasReturned
    /\ NumCounties = 2
    /\ request.counties[1] # request.counties[2]
    /\ \A i \in 1..2 : tasks[i].status = COMPLETED /\ Len(tasks[i].results) = 2
    /\ {tasks[1].results[k].document_id : k \in 1..2}
         = {tasks[2].results[k].document_id : k \in 1..2}
    /\ Len(result.all_documents) = 4

(***************************************************************************)
(* Properties of SpecApp.                                                  *)
(***************************************************************************)
\* the last request was a create for a user_id that already existed: it was
\* answered 400 and the user store and the DID and key stores are as before
DuplicateRejected ==
    (probe.op = "create_identity" /\ probe.user_id \in DOMAIN probe.before.users) =>
        /\ probe.status = 400
        /\ users = probe.before.users
        /\ keys = probe.before.keys
        /\ did_documents = probe.before.did_documents

\* every user has a DID of its own, with keys and a document
OneIdentityEach ==
    /\ \A u \in DOMAIN users :
          users[u].did \in DOMAIN keys /\ users[u].did \in DOMAIN did_documents
    /\ \A u1, u2 \in DOMAIN users :
          u1 # u2 => /\ users[u1].did # users[u2].did
                     /\ keys[users[u1].did] # keys[users[u2].did]

\* a step keeps every user's DID, keys and document
IdentityKept ==
    \A u \in DOMAIN users :
        /\ u \in DOMAIN users'
        /\ users'[u].did = users[u].did
        /\ keys'[users[u].did] = keys[users[u].did]
        /\ did_documents'[users[u].did] = did_documents[users[u].did]

\* C26: a create request for an existing user_id is answered 400 and changes
\* neither the user store nor the DID and key stores; each user_id has one
\* identity, and it keeps the DID and keys of its first creation through
\* every later request.
C26_DuplicateIdentityRejected ==
    /\ [](DuplicateRejected /\ OneIdentityEach)
    /\ [][IdentityKept]_vars

\* a duplicate create was refused while two identities exist
C26_Witness ==
    /\ probe.op = "create_identity"
    /\ probe.status = 400
    /\ probe.user_id \in DOMAIN users
    /\ Cardinality(DOMAIN users) = 2

\* the last request verified a stored credential that is neither revoked nor
\* past its expiration date
VerifiedInForce ==
    /\ probe.op = "verify_credential"
    /\ probe.status = 200
    /\ probe.credential_id \notin revoked
    /\ probe.at < fromisoformat(issued_credentials[probe.credential_id].expirationDate)

\* the last request asked for a credential for an unknown user or an analysis
\* that is missing or not complete
IssueUnfounded ==
    /\ probe.op = "issue_credential"
    /\ \/ probe.user_id \notin DOMAIN users
       \/ probe.analysis_id \notin DOMAIN analyses
       \/ analyses[probe.analysis_id].status # "complete"

\* every stored credential came out of the flow: its subject is the DID of a
\* user who holds its id, and its analysis is complete
IssuedFromFlow ==
    \A c \in DOMAIN issued_credentials :
        /\ issued_credentials[c].id = c
        /\ \E u \in DOMAIN users :
              /\ issued_credentials[c].credentialSubject.id = users[u].did
              /\ \E k \in 1..Len(users[u].credentials) : users[u].credentials[k] = c
        /\ issued_credentials[c].credentialSubject.analysis \in DOMAIN analyses
        /\ analyses[issued_credentials[c].credentialSubject.analysis].status = "complete"

\* C27: a credential issued for a user and a complete analysis verifies as
\* valid by its id as long as it is not revoked and not expired; an issue
\* request for an unknown user, or a missing or incomplete analysis, is
\* refused (404, 404, 400) and stores no credential.
C27_IssuedCredentialVerifies ==
    /\ IssuedFromFlow
    /\ VerifiedInForce => probe.verification_result.valid
    /\ IssueUnfounded => /\ probe.status \in {400, 404}
                         /\ issued_credentials = probe.before

\* a credential found valid some time after it was issued, next to a second
\* credential
C27_Witness ==
    /\ VerifiedInForce
    /\ probe.verification_result.valid
    /\ probe.at > fromisoformat(issued_credentials[probe.credential_id].issuanceDate)
    /\ Cardinality(DOMAIN issued_credentials) = 2

\* a successful revocation has put the credential id in the revocation set
RevocationRecorded ==
    (probe.op = "revoke_credential" /\ probe.status = 200) =>
        probe.credential_id \in revoked

\* the last request verified a stored credential that has been revoked
VerifiedRevoked ==
    /\ probe.op = "verify_credential"
    /\ probe.status = 200
    /\ probe.credential_id \in revoked

\* C28: revocation is irreversible: a revoked credential id stays revoked
\* through every later issue, verify and revoke request, and every verify of
\* it reports not_revoked false and valid false.
C28_RevocationIrreversible ==
    /\ [](RevocationRecorded /\
          (VerifiedRevoked => /\ ~probe.verification_result.checks.not_revoked
                              /\ ~probe.verification_result.valid))
    /\ [][revoked \subseteq revoked']_vars

\* a revoked credential, otherwise sound, is verified while a second one is in force
C28_Witness ==
    /\ VerifiedRevoked
    /\ ~probe.verification_result.valid
    /\ probe.verification_result.checks.signature
    /\ probe.verification_result.checks.not_expired
    /\ Cardinality(DOMAIN issued_credentials) = 2
    /\ Cardinality(revoked) = 1

(***************************************************************************)
(* Properties of the steps of one task (SpecQuery).                        *)
(***************************************************************************)
\* the moves of a coroutine from one operation to the next
TaskOrder ==
    { <<"pending", "lookup">>, <<"lookup", "authenticate">>, <<"lookup", "done">>,
      <<"authenticate", "search">>, <<"authenticate", "done">>,
      <<"search", "close">>, <<"search", "done">>, <<"close", "done">> }

\* after this step the cache holds, under task i's fingerprint, the documents
\* the task has just received
StoresEntry(i) ==
    /\ KeyOf(i) \in DOMAIN cache'
    /\ cache'[KeyOf(i)] = [cached_at |-> now, documents |-> tasks'[i].results]

\* one step of the running call keeps every task in the order
\* create_connector, authenticate, search, cache store
OrderedStep ==
    (phase = "running" /\ phase' = "running") =>
        /\ \A i \in DOMAIN pc :
              /\ pc'[i] # pc[i] => <<pc[i], pc'[i]>> \in TaskOrder
              /\ invocations'[i].create_connector > invocations[i].create_connector
                    => pc[i] = "lookup" /\ invocations[i].search = 0
              /\ invocations'[i].search > invocations[i].search
                    => /\ pc[i] = "authenticate"
                       /\ invocations[i].create_connector = 1
                       /\ conn[i] # NoConn
              /\ (pc[i] = "search" /\ pc'[i] = "close") => StoresEntry(i)
        /\ cache' # cache /\ DOMAIN cache \subseteq DOMAIN cache'
              => \E i \in DOMAIN pc : pc[i] = "search" /\ invocations[i].search = 1
                                       /\ StoresEntry(i)

\* C31: on the cache-miss path a task calls create_connector, then
\* authenticate, then search, then stores in the cache, one after the other:
\* search is invoked only in the step in which the task's authenticate call
\* returns, and the store only in the step in which its search returns.
C31_TaskStepsInOrder ==
    /\ [](\A i \in DOMAIN pc :
             /\ pc[i] \in {"search", "close"} => invocations[i] = [create_connector |-> 1, search |-> 1]
             /\ pc[i] = "authenticate" => invocations[i] = [create_connector |-> 1, search |-> 0])
    /\ [][OrderedStep]_vars

\* a task of the MDLandRec connector has stored its documents while another
\* task of the call is still searching
C31_Witness ==
    /\ phase = "running"
    /\ \E i, j \in DOMAIN pc :
          /\ pc[i] = "close" /\ conn[i].kind # "mock"
          /\ KeyOf(i) \in DOMAIN cache
          /\ pc[j] = "search"

\* task i has missed in the cache and has not yet stored: it is between its
\* lookup and its store
BetweenLookupAndStore(i) == pc[i] \in {"authenticate", "search"}

\* C32: two concurrent tasks with the same cache fingerprint never are both
\* between their lookup and their store: the lookup-to-store sequence of one
\* is atomic with respect to the other's, so the second finds the entry the
\* first stored.
C32_KeySequenceAtomic ==
    \A i, j \in DOMAIN pc :
        (i # j /\ KeyOf(i) = KeyOf(j)) =>
            ~(BetweenLookupAndStore(i) /\ BetweenLookupAndStore(j))

(***************************************************************************)
(* Successive requests of one process, served by an agent that is kept     *)
(* (SearchAgent.search called again) or by the entry points                *)
(* start_title_search and search_title, which construct a SearchAgent for  *)
(* each request and close it afterwards.                                   *)
(***************************************************************************)
\* SearchAgent.__init__(max_concurrent_counties=5)
default_max_concurrent_counties == 5

\* the agent is called again: SearchAgent.search on the same object
SameAgent ==
    /\ Len(calls) + 1 < MaxEntryCalls
    /\ NextCall

\* the entry point serves the next request: agent = SearchAgent(credentials=...)
\* after the agent of the request before was closed
NewAgent(creds) ==
    /\ phase = "closed"
    /\ Len(calls) + 1 < MaxEntryCalls
    /\ calls' = Append(calls, FinishedCall)
    /\ credentials' = creds
    /\ max_concurrent_counties' = default_max_concurrent_counties
    /\ cache' = EmptyMap     \* self.cache = DocumentCache(ttl_seconds=3600)
    /\ _connectors' = EmptyMap
    /\ probe' = [op |-> "SearchAgent", credentials |-> creds]
    /\ phase' = "idle"
    /\ request' = NoRequest
    /\ tasks' = <<>>
    /\ pc' = <<>>
    /\ conn' = <<>>
    /\ sem' = 0
    /\ result' = NoResult
    /\ invocations' = <<>>
    /\ UNCHANGED <<registry, connector_classes, now, api_vars, share_vars>>

NextEntry ==
    \/ \E req \in CallRequests : Search(req)
    \/ \E i \in TaskIds : Start(i)
    \/ \E i \in TaskIds : Lookup(i)
    \/ \E i \in TaskIds : Authenticate(i)
    \/ \E i \in TaskIds : SearchReturn(i)
    \/ \E i \in TaskIds : Close(i)
    \/ Return
    \/ SameAgent
    \/ AgentClose
    \/ \E creds \in CredentialChoices : NewAgent(creds)
    \/ TickCalls

SpecEntry == InitCalls /\ [][NextEntry]_vars

\* the request that has just been served repeats the request before it, whose
\* connector returned documents and whose task completed, and it returned
\* within the TTL window that began when the earlier request started
RepeatedWithDocuments ==
    /\ RepeatedWithinTtl
    /\ PreviousCall.tasks[1].results # <<>>

\* C33: the documents one request stored are found by a later request of the
\* same process with the same fingerprint within the TTL, whether the two
\* were served by one SearchAgent or through start_title_search or
\* search_title: the later request is served from the cache.
C33_CacheProcessWide ==
    RepeatedWithDocuments =>
        /\ conn[1].kind = "none"
        /\ tasks[1].results = PreviousCall.tasks[1].results

(***************************************************************************)
(* Document lists as objects.  Successive calls of SearchAgent.search on   *)
(* one agent, each for one jurisdiction served by the stub connector.      *)
(* `lists` maps the identity of a list object to its documents; the cache  *)
(* entry, task.results and result.documents_by_county[label] hold a        *)
(* reference <<identity>>.  Between calls the caller may change a list it  *)
(* was given.                                                              *)
(***************************************************************************)
ShareJurisdictions == {<<Cook, IL>>, <<LosAngeles, CA>>}

ShareRequests == {TitleSearchRequest(MockParcel, <<j>>) : j \in ShareJurisdictions}

InitShare ==
    /\ Init
    /\ credentials = EmptyMap
    /\ max_concurrent_counties = 1

\* SearchAgent.search for a request naming one jurisdiction, from the cache
\* check of its task to the returned result: `cached_results = cache.get(key)`
\* and `task.results = cached_results`, or `results = await connector.search`,
\* `cache.set(key, results)` and `task.results = results`; then
\* `result.documents_by_county[county_key] = task.results`
ShareSearch(req) ==
    /\ phase = "idle"
    /\ Len(held) < MaxShareCalls
    /\ LET task == create_search_task(req.counties[1][1], req.counties[1][2], req, now)
           cache_key == make_key(task.county, task.state, task.criteria)
           cached_results == cache_get(cache, cache_key, now)
           made == create_connector(registry, connector_classes, credentials,
                                    task.county, task.state, 0)
       IN IF cached_results # None /\ lists[cached_results[1]] # <<>>
          THEN /\ held' = Append(held, cached_results)
               /\ cache' = cache_after_get(cache, cache_key, now)
               /\ UNCHANGED lists
          ELSE /\ made.ok
               /\ \E outcome \in search_outcomes(made.connector, task.criteria) :
                     /\ ~outcome.raised
                     /\ lists' = Append(lists, outcome.documents)
                     /\ cache' = cache_set(cache_after_get(cache, cache_key, now),
                                           cache_key, <<Len(lists) + 1>>, now)
                     /\ held' = Append(held, <<Len(lists) + 1>>)
    /\ UNCHANGED <<now, phase, request, tasks, pc, conn, sem, result, invocations>>
    /\ UNCHANGED <<registry, connector_classes, credentials, max_concurrent_counties,
                   _connectors, calls, probe, api_vars>>

\* the caller of an earlier call changes the list its result holds:
\* result.documents_by_county[label].pop() or .clear()
ChangeHeld(k, change) ==
    /\ phase = "idle"
    /\ k \in DOMAIN held
    /\ lists[held[k][1]] # <<>>
    /\ lists' = [lists EXCEPT ![held[k][1]] =
                    IF change = "clear" THEN <<>> ELSE SubSeq(@, 1, Len(@) - 1)]
    /\ UNCHANGED <<cache, held, now, phase, request, tasks, pc, conn, sem, result,
                   invocations>>
    /\ UNCHANGED <<registry, connector_classes, credentials, max_concurrent_counties,
                   _connectors, calls, probe, api_vars>>

NextShare ==
    \/ \E req \in ShareRequests : ShareSearch(req)
    \/ \E k \in 1..MaxShareCalls, change \in {"pop", "clear"} : ChangeHeld(k, change)

SpecShare == InitShare /\ [][NextShare]_vars

\* the documents a cache hit for cache_key would be given now
CachedDocuments(cache_key) == lists[cache[cache_key].documents[1]]

\* a caller changes a list in this step
ListChanged == lists' # lists /\ held' = held

\* C34: the list of a returned result is a copy: changing it leaves the
\* documents of every cache entry as they were, and no two returned results
\* hold one and the same list.
C34_ListsNotShared ==
    /\ [](\A k1, k2 \in DOMAIN held : k1 # k2 => held[k1] # held[k2])
    /\ [][ListChanged =>
            \A cache_key \in DOMAIN cache :
                lists'[cache[cache_key].documents[1]] = CachedDocuments(cache_key)]_vars

(***************************************************************************)
(* Properties of failed and completed tasks.                               *)
(***************************************************************************)
\* task i has stored its documents in the cache: the coroutine is at
\* `await connector.close()`, which follows cache.set
HasStored(i) == phase = "running" /\ pc[i] = "close"

\* C35: a task whose status is FAILED carries no documents, and a task that
\* has stored an entry under its fingerprint does not end FAILED.
C35_FailedLeavesNothing ==
    /\ [](\A i \in DOMAIN tasks : tasks[i].status = FAILED => tasks[i].results = <<>>)
    /\ [][\A i \in DOMAIN pc : HasStored(i) => tasks'[i].status # FAILED]_vars

(***************************************************************************)
(* Two successive calls of SearchAgent.search on one agent for the same    *)
(* parcel and jurisdiction, with requests that differ in max_documents,    *)
(* document_types and years_back.                                          *)
(***************************************************************************)
LimitDocuments == {max_documents, 1}
LimitTypes == {{}, {MORTGAGE}}
LimitYears == {years_back, 1}

LimitRequests ==
    {[TitleSearchRequest(MockParcel, <<<<Cook, IL>>>>) EXCEPT
         !.max_documents = m, !.document_types = ts, !.years_back = y] :
       m \in LimitDocuments, ts \in LimitTypes, y \in LimitYears}

NextLimits ==
    \/ \E req \in LimitRequests : Search(req)
    \/ \E i \in TaskIds : Start(i)
    \/ \E i \in TaskIds : Lookup(i)
    \/ \E i \in TaskIds : Authenticate(i)
    \/ \E i \in TaskIds : SearchReturn(i)
    \/ \E i \in TaskIds : Close(i)
    \/ Return
    \/ SameAgent

SpecLimits == InitShare /\ [][NextLimits]_vars

\* document doc satisfies the document-kind filter and the date range of criteria
Satisfies(doc, criteria) ==
    /\ criteria.document_types # {} => doc.document_type \in criteria.document_types
    /\ doc.recording_date # NoDate
    /\ doc.recording_date[1] >= criteria.start_date[1]
    /\ doc.recording_date[1] <= criteria.end_date[1]

\* the results of task i respect the task's own limit, filter and date range
WithinCriteria(i) ==
    /\ Len(tasks[i].results) <= tasks[i].criteria.max_results
    /\ \A k \in 1..Len(tasks[i].results) :
          Satisfies(tasks[i].results[k], tasks[i].criteria)

ReturnedUnderCeiling ==
    /\ Created /\ Registered
    /\ probe.priority # 0
    /\ probe.outcome.ok

\* the returned connector was built from an attempted strategy whose
\* priority is within the ceiling
BuiltWithinCeiling ==
    /\ probe.built_by # 0
    /\ probe.attempted[probe.built_by].priority <= probe.priority
    /\ probe.outcome = instantiate_connector(probe.attempted[probe.built_by], Descriptor,
                                             connector_classes, credentials)

\* C37 as stated: under a maximum priority p the returned connector was
\* built from a strategy with priority <= p, and for p < 4 it is never the
\* priority-4 stub.
C37_WithinCeiling ==
    ReturnedUnderCeiling =>
        /\ BuiltWithinCeiling
        /\ probe.priority < FALLBACK => probe.outcome.connector.kind # "mock"

\* C37 amended: under a maximum priority p only strategies with priority <= p
\* are attempted; when one of them constructs, the returned connector is the
\* one built from the first such strategy; when none constructs, the stub for
\* the county and state of the call is returned whatever p is.
C37_WithinCeilingOrStub ==
    ReturnedUnderCeiling =>
        /\ \A k \in DOMAIN probe.attempted : probe.attempted[k].priority <= probe.priority
        /\ IF \E k \in EligiblePositions : Constructs(Descriptor.connectors[k])
           THEN BuiltWithinCeiling
           ELSE /\ probe.built_by = 0
                /\ probe.outcome.connector = Connector("mock", probe.county, probe.state)

\* a ceiling below 4 shut out a stub strategy of the descriptor and the
\* connector of a strategy within the ceiling was returned
C37_Witness ==
    /\ ReturnedUnderCeiling
    /\ probe.priority < FALLBACK
    /\ \E k \in DOMAIN Descriptor.connectors :
          /\ Descriptor.connectors[k].priority > probe.priority
          /\ Descriptor.connectors[k].connector_type = "mock"
    /\ BuiltWithinCeiling
    /\ probe.outcome.connector.kind # "mock"

(***************************************************************************)
(* Properties of the returned result (SpecQuery).                          *)
(***************************************************************************)
\* the sum of the lengths of the lists by_county holds under the labels in ks
RECURSIVE SumOfLengths(_, _)
SumOfLengths(by_county, ks) ==
    IF ks = {} THEN 0
    ELSE LET k == CHOOSE x \in ks : TRUE
         IN Len(by_county[k]) + SumOfLengths(by_county, ks \ {k})

\* no jurisdiction is named twice in the request
DistinctJurisdictions ==
    \A i, j \in DOMAIN tasks : i # j => LabelOf(i) # LabelOf(j)

\* C38: in the result of a request naming at least one jurisdiction,
\* documents_by_county has one entry per COMPLETED task (counties_succeeded
\* entries) and total_documents is the sum of the lengths of its lists, also
\* when the request names one jurisdiction more than once.
C38_ByCountyMatchesCounts ==
    (HasReturned /\ NumCounties >= 1) =>
        /\ Cardinality(DOMAIN result.documents_by_county) = result.counties_succeeded
        /\ result.total_documents =
              SumOfLengths(result.documents_by_county, DOMAIN result.documents_by_county)

\* in this step the authenticate call of task i returns False
AuthenticateReturnsFalse(i) ==
    /\ phase = "running" /\ pc[i] = "authenticate"
    /\ pc'[i] # "authenticate"
    /\ ~conn'[i].raised
    /\ ~conn'[i].authenticated

\* C39: a task whose connector's authenticate returns False does not invoke
\* search on that connector, and a task that completed through its connector
\* with documents had an authenticated connector when the search returned.
C39_AuthenticatedBeforeSearch ==
    /\ [](\A i \in DOMAIN pc :
             (HasStored(i) /\ tasks[i].results # <<>>) => conn[i].authenticated)
    /\ [][\A i \in DOMAIN pc :
             AuthenticateReturnsFalse(i) =>
                 /\ pc'[i] # "search"
                 /\ invocations'[i].search = invocations[i].search]_vars

(***************************************************************************)
(* One call of SearchAgent.search under fair scheduling: the event loop    *)
(* resumes every coroutine that can run, and every connector operation     *)
(* (construction, authenticate, search, close) comes back.                 *)
(***************************************************************************)
FairQuery ==
    /\ \A i \in 1..MaxQueryTasks :
          /\ WF_vars(i \in TaskIds /\ Start(i))
          /\ WF_vars(i \in TaskIds /\ Lookup(i))
          /\ WF_vars(i \in TaskIds /\ Authenticate(i))
          /\ WF_vars(i \in TaskIds /\ SearchReturn(i))
          /\ WF_vars(i \in TaskIds /\ Close(i))
    /\ WF_vars(Return)

SpecQueryFair == SpecQuery /\ FairQuery

\* task i of the running call is waiting to start
Waiting(i) == phase = "running" /\ i \in DOMAIN tasks /\ tasks[i].status = PENDING

\* C40: for every limit max_concurrent_counties >= 0, when every connector
\* operation comes back, every task of a running call leaves PENDING and
\* reaches COMPLETED or FAILED, and search returns.
C40_SearchTerminates ==
    /\ (phase = "running") ~> (phase = "returned")
    /\ \A i \in 1..MaxQueryTasks :
          Waiting(i) ~> (i \in DOMAIN tasks /\ tasks[i].status \in Terminal)
====
